---- MODULE Spec2Model ----
(***************************************************************************)
(* Model of the generation request pipeline of the NovelAI plugin.         *)
(*                                                                         *)
(* Part 1: RequestQueue (queue_manager.py).  The queue runs on an asyncio  *)
(* event loop, so a coroutine runs without interruption from one           *)
(* suspension point to the next.  The suspension points of the code are:   *)
(*   - queue.get() on an empty channel            (pc = "get")             *)
(*   - await handler(item)                        (pc = "handler")         *)
(*   - await error_handler(exc, item)             (pc = "error_handler")   *)
(*   - asyncio.sleep(delay)                       (pc = "sleep")           *)
(*   - await self._task inside stop()             (st = "waiting")         *)
(* put() on the unbounded channel, get() on a non-empty channel and the    *)
(* await of a finished task do not suspend.  Each action below is one      *)
(* such uninterrupted run.                                                 *)
(*                                                                         *)
(* The handler and the error callback are supplied by the caller.  The     *)
(* handler either returns or raises an Exception; the error callback is    *)
(* taken to return normally.                                               *)
(*                                                                         *)
(* Part 2: NovelAIAPI.build_payload (nai_api.py, nai_models.py,            *)
(* constants.py) and Part 3: parse_generation_message (parser.py).  Both   *)
(* are functions of their arguments: each is an operator, applied by one   *)
(* action to an argument drawn from a bounded set (SpecCompile,            *)
(* SpecParse).  A call returns a value or raises; random.randint is a      *)
(* choice among the values it can draw.                                    *)
(***************************************************************************)
EXTENDS Integers, Sequences, FiniteSets, TLC

\* ---- bounds of the model -------------------------------------------------
MaxItems == 3      \* items enqueued over a run
MaxTasks == 3      \* worker tasks spawned over a run
MaxStops == 2      \* stop() calls over a run
MaxChars == 2      \* characters of a compiled request
MaxCode == 3       \* characters of a code given to position_to_float
MaxObjects == 3    \* objects the wrapper calls work on
MaxModels == 3     \* models configured for the LLM client
MaxUsers == 2      \* users that are given a quota
MaxLimit == 2      \* largest limit passed to set_quota and add_to_whitelist
MaxTicks == 3      \* half refresh intervals the clock advances over a run
MaxRequests == 3   \* generation commands accepted over a run

\* ---- program constants ---------------------------------------------------
min_delay == 3     \* default of RequestQueue.__init__
max_delay == 5
default_daily_limit == 10     \* AccessControl.__init__, default_daily_limit
refresh_interval == 1440      \* _auto_reset_user, minutes of the daily refresh     \* default of RequestQueue.__init__

None == 0          \* the stop sentinel in the channel; also "no task", "no item"

Items == 1..MaxItems
Tasks == 1..MaxTasks
StopCalls == 1..MaxStops

VARIABLES
    queue,          \* self.queue: the FIFO channel, items and sentinels
    _task,          \* self._task: None or the id of the last spawned worker task
    _running,       \* self._running
    error_handler,  \* TRUE iff an error callback was given to the constructor
    workers,        \* the worker tasks: position in _worker, item in hand, delay,
                    \* and whether the last finished handler invocation raised
    stops,          \* the stop() calls: idle, waiting on a task, or returned
    nextItem,       \* id of the next item to be enqueued (ids follow enqueue order)
    handled,        \* the items the handler was invoked with, in invocation order
    buffered,       \* items enqueued while no worker is alive, no start() since
    stopHit,        \* buffered items over which a stop() was called
    message,        \* parse_generation_message: the command it is given
    parsed,         \* parse_generation_message: what it returned or raised
    request,        \* build_payload: the arguments it is given
    compiled,       \* build_payload: what it returned or raised
    code,           \* position_to_float: the code it is given
    point,          \* position_to_float: what it returned
    objects,        \* the mutable objects (ParsedParams, payload dicts) in
                    \* allocation order; a reference is an index
    outcome,        \* the compiler call made on the objects: its argument
                    \* and what it returned or raised
    models,         \* OpenRouterLLMClient.models, in priority order
    responses,      \* what the service answers for each model of the list
    attempts,       \* generate: the models of the list tried so far
    last_used_model,\* OpenRouterLLMClient.last_used_model
    last_error,     \* generate: its local last_error
    reply,          \* generate: what it returned or raised
    users,          \* AccessControl._data["users"]: qq -> quota record
    now,            \* datetime.now(), in minutes
    answer,         \* the last AccessControl call and what it returned or raised
    pending,        \* accepted generation requests waiting in the request queue
    inflight,       \* _process_queue_item: the request in hand and its position
    generated,      \* per user, the calls of generate_image made for them
    config,         \* self.config: quality_words and preset_uc
    nai_api,        \* self.nai_api: quality_words and preset_uc
    nainl           \* the /nainl requests: position and saved originals

\* the request queue's state
qvars == <<queue, _task, _running, error_handler, workers, stops, nextItem,
           handled, buffered, stopHit>>

\* the state of the parser and of the payload compiler
pipeline == <<message, parsed, request, compiled>>

\* the state of the operations outside the queue and the pipeline
posvars == <<code, point>>
objvars == <<objects, outcome>>
llmvars == <<models, responses, attempts, last_used_model, last_error, reply>>
acvars == <<users, now, answer>>
quotavars == <<pending, inflight, generated>>
nlvars == <<config, nai_api, nainl>>

others == <<posvars, objvars, llmvars, acvars, quotavars, nlvars>>

vars == <<qvars, pipeline, others>>

hist == <<handled, buffered, stopHit>>

\* ---- helpers -------------------------------------------------------------
Range(s) == {s[i] : i \in 1..Len(s)}

ItemsOf(q) == Range(q) \ {None}

Count(s, x) == Cardinality({i \in 1..Len(s) : s[i] = x})

\* A task exists once create_task has run; it is alive until _worker returns.
Alive == {w \in Tasks : workers[w].pc \notin {"none", "done"}}

Spawned == {w \in Tasks : workers[w].pc # "none"}

TaskDone(t) == workers[t].pc = "done"

Idle == [pc |-> "none", item |-> None, delay |-> None, exc |-> FALSE]

\* a worker task whose _worker has returned
Done == [pc |-> "done", item |-> None, delay |-> None, exc |-> FALSE]

\* a stop() call that has returned
Returned == [st |-> "returned", awaiting |-> None, active |-> {}]

\* lines 70-74: take entries off the channel until it is empty or a sentinel
\* has been taken.
RECURSIVE Drain(_)
Drain(q) ==
    IF q = <<>> THEN <<>>
    ELSE IF Head(q) = None THEN Tail(q)
    ELSE Drain(Tail(q))

\* ---- the worker ----------------------------------------------------------
\* In the operators below e is the value of the worker's exc field after the
\* step: whether its last finished handler invocation raised.

\* The loop has ended (line 53 false, or break at line 57): drain and return.
WorkerExit(w, q) ==
    /\ workers' = [workers EXCEPT ![w] = Done]
    /\ queue' = Drain(q)
    /\ handled' = handled

\* lines 54-59 with a non-empty channel: take the head; a sentinel ends the
\* loop, an item goes to the handler.
Take(w, e) ==
    IF Head(queue) = None
    THEN WorkerExit(w, Tail(queue))
    ELSE /\ workers' = [workers EXCEPT ![w] =
                           [pc |-> "handler", item |-> Head(queue),
                            delay |-> None, exc |-> e]]
         /\ queue' = Tail(queue)
         /\ handled' = Append(handled, Head(queue))

\* lines 53-54: the loop test, then queue.get().
LoopTop(w, e) ==
    IF ~_running
    THEN WorkerExit(w, queue)
    ELSE IF queue = <<>>
         THEN /\ workers' = [workers EXCEPT ![w] =
                                [pc |-> "get", item |-> None,
                                 delay |-> None, exc |-> e]]
              /\ UNCHANGED <<queue, handled>>
         ELSE Take(w, e)

\* mutant of AfterHandling: the loop ends after the first handled item
AfterHandlingBreak(w, e) == WorkerExit(w, queue)

\* mutant of AfterHandling: the inter-item delay is left out
AfterHandlingNoDelay(w, e) == LoopTop(w, e)

\* mutant of AfterHandling: the delay is made whatever the channel holds
AfterHandlingDelayAlways(w, e) ==
    /\ \E d \in min_delay..max_delay :
          workers' = [workers EXCEPT ![w] =
                         [pc |-> "sleep", item |-> None,
                          delay |-> d, exc |-> e]]
    /\ UNCHANGED <<queue, handled>>

\* lines 63-67: task_done, then sleep when the channel is not empty.
AfterHandling(w, e) ==
    IF queue # <<>>
    THEN /\ \E d \in min_delay..max_delay :
               workers' = [workers EXCEPT ![w] =
                              [pc |-> "sleep", item |-> None,
                               delay |-> d, exc |-> e]]
         /\ UNCHANGED <<queue, handled>>
    ELSE LoopTop(w, e)

\* first run of a freshly created task
WorkerRun(w) ==
    /\ workers[w].pc = "ready"
    /\ LoopTop(w, FALSE)
    /\ UNCHANGED <<_task, _running, error_handler, stops, nextItem,
                   buffered, stopHit>>
    /\ UNCHANGED <<pipeline, others>>

\* queue.get() resumes once the channel holds something
WorkerGet(w) ==
    /\ workers[w].pc = "get"
    /\ queue # <<>>
    /\ Take(w, workers[w].exc)
    /\ UNCHANGED <<_task, _running, error_handler, stops, nextItem,
                   buffered, stopHit>>
    /\ UNCHANGED <<pipeline, others>>

\* line 59 returns normally
HandlerReturn(w) ==
    /\ workers[w].pc = "handler"
    /\ AfterHandling(w, FALSE)
    /\ UNCHANGED <<_task, _running, error_handler, stops, nextItem,
                   buffered, stopHit>>
    /\ UNCHANGED <<pipeline, others>>

\* mutant of HandlerRaise: the exception is not caught and ends the task
HandlerRaiseCrash(w) ==
    /\ workers[w].pc = "handler"
    /\ workers' = [workers EXCEPT ![w] = Done]
    /\ UNCHANGED <<queue, _task, _running, error_handler, stops, nextItem,
                   handled, buffered, stopHit>>
    /\ UNCHANGED <<pipeline, others>>

\* line 59 raises: lines 60-62
HandlerRaise(w) ==
    /\ workers[w].pc = "handler"
    /\ IF error_handler
       THEN /\ workers' = [workers EXCEPT ![w].pc = "error_handler", ![w].exc = TRUE]
            /\ UNCHANGED <<queue, handled>>
       ELSE AfterHandling(w, TRUE)
    /\ UNCHANGED <<_task, _running, error_handler, stops, nextItem,
                   buffered, stopHit>>
    /\ UNCHANGED <<pipeline, others>>

\* line 62 returns
ErrorHandlerReturn(w) ==
    /\ workers[w].pc = "error_handler"
    /\ AfterHandling(w, TRUE)
    /\ UNCHANGED <<_task, _running, error_handler, stops, nextItem,
                   buffered, stopHit>>
    /\ UNCHANGED <<pipeline, others>>

\* line 67 returns
WakeUp(w) ==
    /\ workers[w].pc = "sleep"
    /\ LoopTop(w, workers[w].exc)
    /\ UNCHANGED <<_task, _running, error_handler, stops, nextItem,
                   buffered, stopHit>>
    /\ UNCHANGED <<pipeline, others>>

\* ---- the public operations ----------------------------------------------
\* lines 35-39
Start ==
    /\ IF _task # None /\ ~TaskDone(_task)
       THEN UNCHANGED <<_task, _running, workers>>
       ELSE /\ Cardinality(Spawned) < MaxTasks
            /\ LET t == Cardinality(Spawned) + 1 IN
                 /\ _running' = TRUE
                 /\ workers' = [workers EXCEPT ![t].pc = "ready"]
                 /\ _task' = t
    /\ buffered' = {}
    /\ UNCHANGED <<queue, error_handler, stops, nextItem,
                   handled, stopHit>>
    /\ UNCHANGED <<pipeline, others>>

\* mutant of StopNoTask: stop() empties the channel although no worker runs
StopNoTaskDiscard(s) ==
    /\ stops' = [stops EXCEPT ![s] = Returned]
    /\ queue' = <<>>
    /\ UNCHANGED <<_task, _running>>

\* lines 42-43: no task handle, stop() returns at once
StopNoTask(s) ==
    /\ stops' = [stops EXCEPT ![s] = Returned]
    /\ UNCHANGED <<queue, _task, _running>>

\* lines 44-47: flag, sentinel, wait for the task, clear the handle
StopTask(s) ==
    /\ _running' = FALSE
    /\ queue' = Append(queue, None)
    /\ IF TaskDone(_task)
       THEN /\ _task' = None
            /\ stops' = [stops EXCEPT ![s] = Returned]
       ELSE /\ _task' = _task
            /\ stops' = [stops EXCEPT ![s] =
                            [st |-> "waiting", awaiting |-> _task, active |-> Alive]]

Stop(s) ==
    /\ stops[s].st = "idle"
    /\ \A r \in StopCalls : r < s => stops[r].st # "idle"
    /\ IF _task = None THEN StopNoTask(s) ELSE StopTask(s)
    /\ stopHit' = stopHit \cup (buffered \cap ItemsOf(queue))
    /\ UNCHANGED <<error_handler, workers, nextItem,
                   handled, buffered>>
    /\ UNCHANGED <<pipeline, others>>

\* line 46 resumes, line 47
StopResume(s) ==
    /\ stops[s].st = "waiting"
    /\ TaskDone(stops[s].awaiting)
    /\ _task' = None
    /\ stops' = [stops EXCEPT ![s] = Returned]
    /\ UNCHANGED <<queue, _running, error_handler, workers, nextItem, hist>>
    /\ UNCHANGED <<pipeline, others>>

\* mutant of Enqueue: the item is put at the head of the channel
EnqueueFront ==
    /\ nextItem <= MaxItems
    /\ queue' = <<nextItem>> \o queue
    /\ nextItem' = nextItem + 1
    /\ buffered' = IF Alive = {} THEN buffered \cup {nextItem} ELSE buffered
    /\ UNCHANGED <<_task, _running, error_handler, workers, stops,
                   handled, stopHit>>
    /\ UNCHANGED <<pipeline, others>>

\* lines 49-50
Enqueue ==
    /\ nextItem <= MaxItems
    /\ queue' = Append(queue, nextItem)
    /\ nextItem' = nextItem + 1
    /\ buffered' = IF Alive = {} THEN buffered \cup {nextItem} ELSE buffered
    /\ UNCHANGED <<_task, _running, error_handler, workers, stops,
                   handled, stopHit>>
    /\ UNCHANGED <<pipeline, others>>

\* ---- the specification ---------------------------------------------------
\* no command is being parsed or compiled
PipelineIdle ==
    /\ message = <<>>
    /\ parsed = <<>>
    /\ request = <<>>
    /\ compiled = <<>>

\* no position code is being converted
PositionIdle ==
    /\ code = <<>>
    /\ point = <<>>

\* no object has been handed to the compiler
ObjectsIdle ==
    /\ objects = <<>>
    /\ outcome = <<>>

\* no generate call has been made on the LLM client
LLMIdle ==
    /\ models = <<>>
    /\ responses = <<>>
    /\ attempts = 0
    /\ last_used_model = <<>>
    /\ last_error = <<>>
    /\ reply = <<>>

\* the whitelist store is not in use
AccessIdle ==
    /\ users = <<>>
    /\ now = 0
    /\ answer = <<>>

\* no generation command has been accepted
QuotaIdle ==
    /\ pending = <<>>
    /\ inflight = <<>>
    /\ generated = <<>>

\* no /nainl request has been made
NLIdle ==
    /\ config = <<>>
    /\ nai_api = <<>>
    /\ nainl = <<>>

OthersIdle ==
    PositionIdle /\ ObjectsIdle /\ LLMIdle /\ AccessIdle /\ QuotaIdle /\ NLIdle

\* lines 25-33: the state after construction
Init ==
    /\ queue = <<>>
    /\ _task = None
    /\ _running = FALSE
    /\ error_handler \in BOOLEAN
    /\ workers = [w \in Tasks |-> Idle]
    /\ stops = [s \in StopCalls |-> [st |-> "idle", awaiting |-> None, active |-> {}]]
    /\ nextItem = 1
    /\ handled = <<>>
    /\ buffered = {}
    /\ stopHit = {}
    /\ PipelineIdle
    /\ OthersIdle

WorkerStep(w) ==
    \/ WorkerRun(w)
    \/ WorkerGet(w)
    \/ HandlerReturn(w)
    \/ HandlerRaise(w)
    \/ ErrorHandlerReturn(w)
    \/ WakeUp(w)

Next ==
    \/ Start
    \/ Enqueue
    \/ \E s \in StopCalls : Stop(s)
    \/ \E s \in StopCalls : StopResume(s)
    \/ \E w \in Tasks : WorkerStep(w)

Spec == Init /\ [][Next]_vars

\* The queue on which stop() is never called.  The event loop runs every
\* task that is ready, and every handler and callback invocation terminates:
\* weak fairness of each worker's steps.
NextNoStop ==
    \/ Start
    \/ Enqueue
    \/ \E w \in Tasks : WorkerStep(w)

SpecNoStop ==
    /\ Init
    /\ [][NextNoStop]_vars
    /\ \A w \in Tasks : WF_vars(WorkerStep(w))

\* The queue on which nothing is ever enqueued.  The event loop runs every
\* task that is ready and resumes a stop() whose awaited task has ended.
NextNoEnqueue ==
    \/ Start
    \/ \E s \in StopCalls : Stop(s)
    \/ \E s \in StopCalls : StopResume(s)
    \/ \E w \in Tasks : WorkerRun(w)
    \/ \E w \in Tasks : WorkerGet(w)

SpecNoEnqueue ==
    /\ Init
    /\ [][NextNoEnqueue]_vars
    /\ \A w \in Tasks : WF_vars(WorkerRun(w) \/ WorkerGet(w))
    /\ \A s \in StopCalls : WF_vars(StopResume(s))

\* ---- values of the parser and of the payload compiler --------------------
\* An Optional[...] of the source is Nothing (Python's None) or Some(v).
Nothing == <<>>
Some(v) == <<v>>

\* A str is the sequence of its comma-separated tags: "" is <<>>, and
\* joining non-empty strs with ", " is the concatenation of the sequences.
\* Python's truth test of an Optional[str]: neither None nor "".
Truthy(o) == o # Nothing /\ o[1] # <<>>

\* the outcome of a call: the value it returned or the exception it raised
Return(v) == [ok |-> TRUE, error |-> "", value |-> Some(v)]
Raise(e) == [ok |-> FALSE, error |-> e, value |-> Nothing]

\* ",".join(parts) for a list of non-empty strs
RECURSIVE Join(_)
Join(parts) ==
    IF parts = <<>> THEN <<>> ELSE Head(parts) \o Join(Tail(parts))

\* ---- constants.py ----------------------------------------------------------
MODELS ==
    {"nai-diffusion-4-5-full", "nai-diffusion-4-5-curated",
     "nai-diffusion-4-full", "nai-diffusion-4-curated-preview",
     "nai-diffusion-3", "nai-diffusion-furry-3"}

\* str.upper() on the letters a position can hold
Upper(c) ==
    CASE c = "a" -> "A" [] c = "b" -> "B" [] c = "c" -> "C"
      [] c = "d" -> "D" [] c = "e" -> "E" [] OTHER -> c

\* A position is the sequence of its characters, "C3" is <<"C", "3">>.
CHARACTER_POSITIONS ==
    {<<letter, number>> : letter \in {"A", "B", "C", "D", "E"},
                          number \in {"1", "2", "3", "4", "5"}}

\* position_to_float with the two axes exchanged
position_to_float_transposed(position) ==
    IF Len(position) < 2
    THEN <<5, 5>>
    ELSE LET letter == Upper(position[1])
             number == position[2]
             x == CASE letter = "A" -> 1 [] letter = "B" -> 3
                    [] letter = "C" -> 5 [] letter = "D" -> 7
                    [] letter = "E" -> 9 [] OTHER -> 5
             y == CASE number = "1" -> 1 [] number = "2" -> 3
                    [] number = "3" -> 5 [] number = "4" -> 7
                    [] number = "5" -> 9 [] OTHER -> 5
         IN  <<y, x>>

\* Coordinates are in tenths: 0.1 is 1, 0.5 is 5.
position_to_float(position) ==
    IF Len(position) < 2
    THEN <<5, 5>>
    ELSE LET letter == Upper(position[1])
             number == position[2]
             x == CASE letter = "A" -> 1 [] letter = "B" -> 3
                    [] letter = "C" -> 5 [] letter = "D" -> 7
                    [] letter = "E" -> 9 [] OTHER -> 5
             y == CASE number = "1" -> 1 [] number = "2" -> 3
                    [] number = "3" -> 5 [] number = "4" -> 7
                    [] number = "5" -> 9 [] OTHER -> 5
         IN  <<x, y>>

get_uc_preset_value(model, preset_name) ==
    CASE preset_name = "Heavy" -> 0
      [] preset_name = "Light" -> 1
      [] preset_name = "None" ->
           IF model = "nai-diffusion-4-5-full" THEN 4
           ELSE IF model \in {"nai-diffusion-4-5-curated", "nai-diffusion-3"}
                THEN 3 ELSE 2
      [] OTHER -> 0

\* The tag lists are long: each text is kept up to its first tag, and of the
\* presets Heavy, Light and None are kept.
get_quality_tags(model) ==
    CASE model \in {"nai-diffusion-4-5-full", "nai-diffusion-4-5-curated"} ->
           <<"very aesthetic">>
      [] model = "nai-diffusion-4-full" -> <<"no text">>
      [] model = "nai-diffusion-4-curated-preview" -> <<"rating:general">>
      [] model = "nai-diffusion-3" -> <<"best quality">>
      [] model = "nai-diffusion-furry-3" -> <<"{best quality}">>
      [] OTHER -> <<>>

get_negative_preset(model, preset_name) ==
    CASE preset_name = "Heavy" ->
           IF model \in {"nai-diffusion-4-5-full", "nai-diffusion-3"}
           THEN <<"lowres">>
           ELSE IF model = "nai-diffusion-furry-3" THEN <<"{{worst quality}}">>
           ELSE <<"blurry">>
      [] preset_name = "Light" ->
           IF model \in {"nai-diffusion-4-5-full", "nai-diffusion-3"}
           THEN <<"lowres">>
           ELSE IF model = "nai-diffusion-furry-3" THEN <<"{worst quality}">>
           ELSE <<"blurry">>
      [] preset_name = "None" ->
           IF model \in {"nai-diffusion-3", "nai-diffusion-furry-3"}
           THEN <<"lowres">> ELSE <<>>
      [] OTHER -> <<>>

\* ---- nai_models.py ---------------------------------------------------------
\* The payload of a text-to-image request.  A key the dict does not hold is
\* Nothing.  Strengths and scales are in tenths.
_build_text2image(model, kwargs) ==
    [input |-> kwargs.prompt,
     model |-> model,
     action |-> "generate",
     parameters |->
        [width |-> kwargs.width,
         height |-> kwargs.height,
         scale |-> kwargs.scale,
         sampler |-> kwargs.sampler,
         steps |-> kwargs.steps,
         ucPreset |-> kwargs.uc_preset,
         qualityToggle |-> kwargs.quality_toggle,
         add_original_image |-> kwargs.add_original_image,
         cfg_rescale |-> kwargs.cfg_rescale,
         use_coords |-> kwargs.use_coords,
         seed |-> kwargs.seed,
         characterPrompts |-> kwargs.character_prompts,
         negative_prompt |-> kwargs.negative_prompt,
         v4_prompt |->
            [caption |-> [base_caption |-> kwargs.prompt,
                          char_captions |-> kwargs.v4_prompt_positive],
             use_coords |-> kwargs.use_coords,
             use_order |-> kwargs.use_order],
         v4_negative_prompt |->
            [caption |-> [base_caption |-> kwargs.negative_prompt,
                          char_captions |-> kwargs.v4_prompt_negative],
             legacy_uc |-> kwargs.legacy_uc],
         director_reference_images |-> Nothing,
         director_reference_strength_values |-> Nothing,
         director_reference_secondary_strength_values |-> Nothing,
         strength |-> Nothing,
         noise |-> Nothing,
         image |-> Nothing,
         extra_noise_seed |-> Nothing,
         color_correct |-> Nothing,
         mask |-> Nothing]]

\* lines 121-142; kwargs.image is Nothing when the caller passes no image
_build_image2image(payload, kwargs) ==
    LET params == [payload.parameters EXCEPT
                     !.strength = Some(kwargs.strength),
                     !.noise = Some(kwargs.noise),
                     !.image = kwargs.image,
                     !.extra_noise_seed = Some(kwargs.extra_noise_seed),
                     !.color_correct = Some(kwargs.color_correct)]
    IN  IF params.image = Nothing
        THEN Raise("ValueError")
        ELSE Return([payload EXCEPT !.action = "img2img",
                                    !.parameters = params])

\* model.endswith("-curated"), on the models build_payload accepts
EndsWithCurated(model) == model = "nai-diffusion-4-5-curated"

\* lines 145-159
_build_inpaint(payload, kwargs) ==
    LET new_payload == _build_image2image(payload, kwargs)
    IN  IF ~new_payload.ok
        THEN new_payload
        ELSE IF kwargs.mask = Nothing
        THEN Raise("ValueError")
        ELSE LET p == new_payload.value[1]
                 model == IF EndsWithCurated(payload.model)
                          THEN "nai-diffusion-4-5-curated-inpainting"
                          ELSE p.model
             IN  Return([p EXCEPT !.model = model,
                                  !.parameters.mask = kwargs.mask,
                                  !.parameters.add_original_image = FALSE])

\* ---- nai_api.py ------------------------------------------------------------
\* nai_models.py lines 162-183: the model each builder writes in the payload
BuilderModel ==
    [build_nai45f_text2image |-> "nai-diffusion-4-5-full",
     build_nai45c_text2image |-> "nai-diffusion-4-5-curated",
     build_nai4f_text2image |-> "nai-diffusion-4-full",
     build_nai4cp_text2image |-> "nai-diffusion-4-curated-preview",
     build_nai3_text2image |-> "nai-diffusion-3",
     build_naif3_text2image |-> "nai-diffusion-furry-3"]

\* mutant of _MODEL_BUILDERS: two builders exchanged
_MODEL_BUILDERS_Exchanged ==
    [m \in MODELS |->
        CASE m = "nai-diffusion-4-5-full" -> "build_nai45f_text2image"
          [] m = "nai-diffusion-4-5-curated" -> "build_nai45c_text2image"
          [] m = "nai-diffusion-4-full" -> "build_nai4cp_text2image"
          [] m = "nai-diffusion-4-curated-preview" -> "build_nai4f_text2image"
          [] m = "nai-diffusion-3" -> "build_nai3_text2image"
          [] m = "nai-diffusion-furry-3" -> "build_naif3_text2image"]

\* lines 35-42: the builder of each model identifier
_MODEL_BUILDERS ==
    [m \in {"nai-diffusion-4-5-full", "nai-diffusion-4-5-curated",
            "nai-diffusion-4-full", "nai-diffusion-4-curated-preview",
            "nai-diffusion-3", "nai-diffusion-furry-3"} |->
        CASE m = "nai-diffusion-4-5-full" -> "build_nai45f_text2image"
          [] m = "nai-diffusion-4-5-curated" -> "build_nai45c_text2image"
          [] m = "nai-diffusion-4-full" -> "build_nai4f_text2image"
          [] m = "nai-diffusion-4-curated-preview" -> "build_nai4cp_text2image"
          [] m = "nai-diffusion-3" -> "build_nai3_text2image"
          [] m = "nai-diffusion-furry-3" -> "build_naif3_text2image"]

\* mutant of ResolveSeed: the seed is tested for truth, not for None
ResolveSeedTruthy(params, rnd) ==
    IF params.seed # Nothing /\ params.seed[1] # 0 THEN params.seed[1] ELSE rnd

\* line 78: the given seed, or the value rnd that random.randint draws
ResolveSeed(params, rnd) ==
    IF params.seed # Nothing THEN params.seed[1] ELSE rnd

_character_center(character) ==
    LET xy == position_to_float(character.position)
    IN  [x |-> xy[1], y |-> xy[2]]

\* mutant of extra_positive_parts: the texts in reverse list order
RECURSIVE extra_positive_parts_reversed(_)
extra_positive_parts_reversed(characters) ==
    IF characters = <<>> THEN <<>>
    ELSE extra_positive_parts_reversed(Tail(characters))
         \o (IF Head(characters).positive # <<>>
             THEN <<Head(characters).positive>> ELSE <<>>)

\* lines 112-117: the texts of the characters that have one, in list order
RECURSIVE extra_positive_parts(_)
extra_positive_parts(characters) ==
    IF characters = <<>> THEN <<>>
    ELSE (IF Head(characters).positive # <<>>
          THEN <<Head(characters).positive>> ELSE <<>>)
         \o extra_positive_parts(Tail(characters))

RECURSIVE extra_negative_parts(_)
extra_negative_parts(characters) ==
    IF characters = <<>> THEN <<>>
    ELSE (IF Truthy(Head(characters).negative)
          THEN <<Head(characters).negative[1]>> ELSE <<>>)
         \o extra_negative_parts(Tail(characters))

\* lines 158-177
WithReference(payload, params, character_reference) ==
    IF Truthy(character_reference)
    THEN [payload EXCEPT
            !.parameters.director_reference_images = Some(character_reference[1]),
            !.parameters.director_reference_strength_values =
                Some(params.character_reference_strength),
            !.parameters.director_reference_secondary_strength_values =
                Some(IF 10 - params.character_reference_strength > 0
                     THEN 10 - params.character_reference_strength ELSE 0)]
    ELSE payload

\* lines 179-197: the image-to-image and the inpaint wrapping
WithImages(payload, params, base_image, mask_image, seed) ==
    LET img == IF Truthy(base_image)
               THEN _build_image2image(payload,
                        [image |-> base_image, mask |-> Nothing,
                         strength |-> params.base_strength,
                         noise |-> params.base_noise,
                         extra_noise_seed |-> seed, color_correct |-> FALSE])
               ELSE Return(payload)
    IN  IF ~img.ok THEN img
        ELSE IF Truthy(mask_image)
        THEN _build_inpaint(img.value[1],
                 [image |-> Nothing, mask |-> mask_image,
                  strength |-> params.base_strength,
                  noise |-> params.base_noise,
                  extra_noise_seed |-> seed, color_correct |-> FALSE])
        ELSE img

\* lines 65-199; rnd is the value random.randint draws at line 78
build_payload(params, model, base_image, mask_image, character_reference, rnd) ==
    IF model \notin DOMAIN _MODEL_BUILDERS
    THEN Raise("NovelAIAPIError")
    ELSE
    LET builder == _MODEL_BUILDERS[model]
        seed == ResolveSeed(params, rnd)
        prompt0 == IF params.furry_mode
                   THEN <<"fur dataset">> \o params.positive_prompt
                   ELSE params.positive_prompt
        quality_tags == get_quality_tags(model)
        prompt1 == IF params.add_quality_tags /\ quality_tags # <<>>
                   THEN prompt0 \o quality_tags ELSE prompt0
        negative0 == IF Truthy(params.negative_prompt)
                     THEN params.negative_prompt[1]
                     ELSE get_negative_preset(model, params.negative_preset)
        characters_exist == params.characters # <<>>
        use_zones == params.use_character_zones /\ characters_exist
        uc(char) == IF Truthy(char.negative) THEN char.negative[1] ELSE <<>>
        n == IF use_zones THEN Len(params.characters) ELSE 0
        v4_positive ==
            [i \in 1..n |->
                [char_caption |-> params.characters[i].positive,
                 centers |-> <<_character_center(params.characters[i])>>]]
        v4_negative ==
            [i \in 1..n |->
                [char_caption |-> uc(params.characters[i]),
                 centers |-> <<_character_center(params.characters[i])>>]]
        character_prompts ==
            [i \in 1..n |->
                [prompt |-> params.characters[i].positive,
                 uc |-> uc(params.characters[i]),
                 center |-> _character_center(params.characters[i]),
                 enabled |-> TRUE]]
        extra == ~use_zones /\ characters_exist
        prompt == IF extra
                  THEN prompt1 \o Join(extra_positive_parts(params.characters))
                  ELSE prompt1
        negative_prompt ==
            IF extra
            THEN negative0 \o Join(extra_negative_parts(params.characters))
            ELSE negative0
        payload == _build_text2image(BuilderModel[builder],
            [prompt |-> prompt,
             negative_prompt |-> negative_prompt,
             width |-> params.width,
             height |-> params.height,
             scale |-> params.guidance,
             sampler |-> params.sampler,
             steps |-> params.steps,
             uc_preset |-> get_uc_preset_value(model, params.negative_preset),
             quality_toggle |-> params.add_quality_tags,
             add_original_image |-> TRUE,
             cfg_rescale |-> params.cfg_rescale,
             use_coords |-> use_zones,
             use_order |-> TRUE,
             legacy_uc |-> FALSE,
             seed |-> seed,
             character_prompts |-> character_prompts,
             v4_prompt_positive |-> v4_positive,
             v4_prompt_negative |-> v4_negative])
        wrapped == WithImages(WithReference(payload, params, character_reference),
                              params, base_image, mask_image, seed)
    IN  IF ~wrapped.ok THEN wrapped
        ELSE Return([payload |-> wrapped.value[1], seed |-> seed])

\* ---- the compiler applied to bounded requests ------------------------------
\* main.py line 116: the queue as the plugin constructs it, no error callback
QueueConstructed ==
    /\ queue = <<>>
    /\ _task = None
    /\ _running = FALSE
    /\ error_handler = FALSE
    /\ workers = [w \in Tasks |-> Idle]
    /\ stops = [s \in StopCalls |-> [st |-> "idle", awaiting |-> None, active |-> {}]]
    /\ nextItem = 1
    /\ handled = <<>>
    /\ buffered = {}
    /\ stopHit = {}

\* parser.py lines 276-299 with no optional key given: the defaults
DefaultParams ==
    [positive_prompt |-> <<"1girl">>,
     negative_prompt |-> Nothing,
     negative_preset |-> "Heavy",
     model_name |-> Nothing,
     furry_mode |-> FALSE,
     add_quality_tags |-> FALSE,
     base_image |-> Nothing,
     base_strength |-> 7,
     base_noise |-> 0,
     width |-> 832,
     height |-> 1216,
     steps |-> 28,
     guidance |-> 50,
     cfg_rescale |-> 0,
     seed |-> Nothing,
     sampler |-> "k_euler_ancestral",
     use_character_zones |-> FALSE,
     characters |-> <<>>,
     character_reference |-> Nothing,
     character_reference_strength |-> 10,
     style_aware |-> FALSE]

\* the text of character i in the requests
CharText(i) == <<(<<"girl", "boy", "cat", "dog", "fox">>)[i]>>

CharacterPrompts(i) ==
    {[index |-> i, positive |-> CharText(i), negative |-> neg, position |-> pos] :
        neg \in {Nothing, Some(<<"hat">>)},
        pos \in {<<"A", "1">>, <<"D", "4">>}}

\* the elements of a set of indexes in increasing order
RECURSIVE SortedSeq(_)
SortedSeq(S) ==
    IF S = {} THEN <<>>
    ELSE LET m == CHOOSE x \in S : \A y \in S : x <= y
         IN  <<m>> \o SortedSeq(S \ {m})

\* the character lists the parser can return for the indexes 1..n:
\* increasing indexes
CharacterLists(n) ==
    UNION {LET idx == SortedSeq(S)
           IN  {cs \in [1..Len(idx) -> UNION {CharacterPrompts(i) : i \in S}] :
                  \A k \in 1..Len(idx) : cs[k].index = idx[k]} :
           S \in SUBSET (1..n)}

ExplicitSeeds == {0, 42}

\* random.randint(1_000_000_000, 9_999_999_999): two of the values it can draw
RandomSeeds == {1000000000, 1000000001}

CompileParams(n) ==
    {[DefaultParams EXCEPT
        !.seed = sd, !.use_character_zones = zones, !.characters = cs,
        !.furry_mode = furry, !.add_quality_tags = quality,
        !.negative_prompt = neg] :
        sd \in {Nothing} \cup {Some(x) : x \in ExplicitSeeds},
        zones \in BOOLEAN, cs \in CharacterLists(n),
        furry \in BOOLEAN, quality \in BOOLEAN,
        neg \in {Nothing, Some(<<"bad">>)}}

Images(name) == {Nothing, Some(<<name>>)}

Requests(n) ==
    {[parsed |-> p, model |-> m, base_image |-> b, mask_image |-> k,
      character_reference |-> r] :
        p \in CompileParams(n), m \in MODELS \cup {"nai-diffusion-2"},
        b \in Images("base"), k \in Images("mask"), r \in Images("ref")}

InitCompile ==
    /\ QueueConstructed
    /\ message = Nothing
    /\ parsed = Nothing
    /\ request \in {Some(r) : r \in Requests(MaxChars)}
    /\ compiled = Nothing
    /\ OthersIdle

\* one call of build_payload on the request
BuildPayload ==
    /\ request # Nothing
    /\ \E rnd \in RandomSeeds :
         compiled' = Some(build_payload(request[1].parsed, request[1].model,
                                        request[1].base_image,
                                        request[1].mask_image,
                                        request[1].character_reference, rnd))
    /\ UNCHANGED <<qvars, message, parsed, request, others>>

NextCompile == BuildPayload

SpecCompile == InitCompile /\ [][NextCompile]_vars

\* ---- parser.py -------------------------------------------------------------
\* A command is its prefix and the (key, value) pairs that _collect_pairs
\* finds in it.  A key is the sequence of its parts, so that the prefix and
\* suffix tests of the code are tests on the first and the last part.  Keys
\* and keywords are written in ASCII:
\*   角色 "char"            正面词条 "positive"     负面词条 "negative"
\*   位置 "position"        是否有福瑞 "furry"      添加质量词 "quality"
\*   底图 "base_image"      底图重绘强度 "base_strength"
\*   底图加噪强度 "base_noise"   分辨率 "resolution"  步数 "steps"
\*   指导系数 "guidance"    重采样系数 "cfg_rescale"  种子 "seed"
\*   采样器 "sampler"       角色是否分区 "char" "zones"
\*   角色参考 "char" "reference"   角色参考强度 "char" "reference_strength"
\*   是否注意原画风 "style_aware"  模型 "model"
\*   竖图 "portrait"  横图 "landscape"  方图 "square"  是 "shi"  否 "fou"
\* A value is a str without surrounding blanks (_collect_pairs strips it);
\* the value of a position key is the sequence of its characters.
ParseError(field, what) == Raise(<<"ParseError", field, what>>)

_GENERAL_KEYS ==
    {<<"positive">>, <<"negative">>, <<"furry">>, <<"quality">>,
     <<"base_image">>, <<"base_strength">>, <<"base_noise">>,
     <<"resolution">>, <<"steps">>, <<"guidance">>, <<"cfg_rescale">>,
     <<"seed">>, <<"sampler">>, <<"char", "zones">>, <<"char", "reference">>,
     <<"char", "reference_strength">>, <<"style_aware">>, <<"model">>}

SAMPLERS ==
    {"k_euler", "k_euler_ancestral", "k_dpmpp_2s_ancestral", "k_dpmpp_2m",
     "k_dpmpp_sde", "k_dpmpp_2m_sde"}

\* mutant of RESOLUTION_MAP: width and height of the landscape entry exchanged
RESOLUTION_MAP_Exchanged ==
    [k \in {"portrait", "landscape", "square"} |->
        CASE k = "portrait" -> <<832, 1216>>
          [] k = "landscape" -> <<832, 1216>>
          [] k = "square" -> <<1024, 1024>>]

\* constants.py lines 33-37
RESOLUTION_MAP ==
    [k \in {"portrait", "landscape", "square"} |->
        CASE k = "portrait" -> <<832, 1216>>
          [] k = "landscape" -> <<1216, 832>>
          [] k = "square" -> <<1024, 1024>>]

\* dict.get(key): the value, or Nothing
Get(params, key) == IF key \in DOMAIN params THEN Some(params[key]) ELSE Nothing

\* dict.get(key) or None
OrNone(o) == IF o # Nothing /\ o[1] # "" THEN o ELSE Nothing

\* int(text) on the strs of the commands: the integer a str denotes
IntOf ==
    [s \in {"0", "1", "2", "28", "29", "30", "42", "-1"} |->
        CASE s = "0" -> 0 [] s = "1" -> 1 [] s = "2" -> 2 [] s = "28" -> 28
          [] s = "29" -> 29 [] s = "30" -> 30 [] s = "42" -> 42 [] s = "-1" -> -1]

\* float(text) on the strs of the commands, in tenths
FloatOf ==
    [s \in DOMAIN IntOf \cup {"0.5", "1.5"} |->
        CASE s = "0.5" -> 5 [] s = "1.5" -> 15 [] OTHER -> 10 * IntOf[s]]

\* lines 73-81
_parse_bool(value, field, default) ==
    IF value = Nothing THEN Return(default)
    ELSE IF value[1] \in {"shi", "true", "True", "1", "yes", "YES"} THEN Return(TRUE)
    ELSE IF value[1] \in {"fou", "false", "False", "0", "no", "NO"} THEN Return(FALSE)
    ELSE ParseError(field, "not a bool")

\* lines 84-102; min_value and max_value are always given, in tenths (on
\* tenths the limit 0.99 of base_noise is the limit 9)
_parse_float(value, field, default, min_value, max_value) ==
    IF value = Nothing \/ value = Some("") THEN Return(default)
    ELSE IF value[1] \notin DOMAIN FloatOf THEN ParseError(field, "not a number")
    ELSE IF FloatOf[value[1]] < min_value THEN ParseError(field, "too small")
    ELSE IF FloatOf[value[1]] > max_value THEN ParseError(field, "too large")
    ELSE Return(FloatOf[value[1]])

\* mutant of _parse_int: the upper limit is not tested
_parse_int_no_max(value, field, default, min_value, max_value) ==
    IF value = Nothing \/ value = Some("") THEN Return(default)
    ELSE IF value[1] \notin DOMAIN IntOf THEN ParseError(field, "not an integer")
    ELSE IF min_value # Nothing /\ IntOf[value[1]] < min_value[1]
         THEN ParseError(field, "too small")
    ELSE Return(Some(IntOf[value[1]]))

\* lines 105-123; default, min_value and max_value are Optional
_parse_int(value, field, default, min_value, max_value) ==
    IF value = Nothing \/ value = Some("") THEN Return(default)
    ELSE IF value[1] \notin DOMAIN IntOf THEN ParseError(field, "not an integer")
    ELSE IF min_value # Nothing /\ IntOf[value[1]] < min_value[1]
         THEN ParseError(field, "too small")
    ELSE IF max_value # Nothing /\ IntOf[value[1]] > max_value[1]
         THEN ParseError(field, "too large")
    ELSE Return(Some(IntOf[value[1]]))

\* str.isdigit() and int() on the index part of a character key
Digits == {"0", "1", "2", "3", "4", "5", "6", "7", "8", "9"}

IsDigit(index_part) ==
    index_part # <<>> /\ \A i \in 1..Len(index_part) : index_part[i] \in Digits

DigitValue(d) == CHOOSE n \in 0..9 : ToString(n) = d

RECURSIVE IndexOf(_)
IndexOf(index_part) ==
    IF index_part = <<>> THEN 0
    ELSE 10 * IndexOf(SubSeq(index_part, 1, Len(index_part) - 1))
         + DigitValue(index_part[Len(index_part)])

\* lines 157-180: Return(Nothing) for "not a character key" (False in the
\* code), Return(Some(character_params)) for True
_set_character_param(key, value, character_params) ==
    IF key = <<>> \/ key[1] # "char" THEN Return(Nothing)
    ELSE IF Len(key) < 2 \/ key[Len(key)] \notin {"positive", "negative", "position"}
    THEN Return(Nothing)
    ELSE LET matched_suffix == key[Len(key)]
             index_part == SubSeq(key, 2, Len(key) - 1)
             index == IndexOf(index_part)
             entry == IF index \in DOMAIN character_params
                      THEN character_params[index]
                      ELSE [positive |-> Nothing, negative |-> Nothing,
                            position |-> Nothing]
             updated == CASE matched_suffix = "positive" ->
                               [entry EXCEPT !.positive = Some(value)]
                          [] matched_suffix = "negative" ->
                               [entry EXCEPT !.negative = Some(value)]
                          [] matched_suffix = "position" ->
                               [entry EXCEPT !.position = Some(value)]
         IN  IF ~IsDigit(index_part) THEN ParseError("key", "character key")
             ELSE IF ~(1 <= index /\ index <= 5) THEN ParseError("key", "character index")
             ELSE Return(Some([i \in DOMAIN character_params \cup {index} |->
                                 IF i = index THEN updated ELSE character_params[i]]))

\* lines 182-187: the loop over the pairs
RECURSIVE ScanPairs(_, _, _)
ScanPairs(pairs, general_params, character_params) ==
    IF pairs = <<>>
    THEN Return([general_params |-> general_params,
                 character_params |-> character_params])
    ELSE LET key == Head(pairs)[1]
             value == Head(pairs)[2]
             set == _set_character_param(key, value, character_params)
         IN  IF ~set.ok THEN set
             ELSE IF set.value[1] # Nothing
             THEN ScanPairs(Tail(pairs), general_params, set.value[1][1])
             ELSE IF key \notin _GENERAL_KEYS THEN ParseError("key", "unknown key")
             ELSE ScanPairs(Tail(pairs),
                      [k \in DOMAIN general_params \cup {key} |->
                          IF k = key THEN value ELSE general_params[k]],
                      character_params)

\* str.upper() of a position
UpperSeq(position) == [i \in 1..Len(position) |-> Upper(position[i])]

\* mutant of BuildCharacters: a character without positive prompt is skipped
RECURSIVE BuildCharactersSkip(_, _)
BuildCharactersSkip(indexes, character_params) ==
    IF indexes = <<>> THEN Return(<<>>)
    ELSE LET index == Head(indexes)
             data == character_params[index]
             position == UpperSeq(IF data.position = Nothing \/ data.position[1] = <<>>
                                  THEN <<"C", "3">> ELSE data.position[1])
             rest == BuildCharactersSkip(Tail(indexes), character_params)
         IN  IF data.positive = Nothing \/ data.positive[1] = ""
             THEN rest
             ELSE IF position \notin CHARACTER_POSITIONS
             THEN ParseError("character", "position")
             ELSE IF ~rest.ok THEN rest
             ELSE Return(<<[index |-> index, positive |-> data.positive[1],
                            negative |-> data.negative, position |-> position]>>
                         \o rest.value[1])

\* lines 242-257: the characters in index order
RECURSIVE BuildCharacters(_, _)
BuildCharacters(indexes, character_params) ==
    IF indexes = <<>> THEN Return(<<>>)
    ELSE LET index == Head(indexes)
             data == character_params[index]
             position == UpperSeq(IF data.position = Nothing \/ data.position[1] = <<>>
                                  THEN <<"C", "3">> ELSE data.position[1])
             rest == BuildCharacters(Tail(indexes), character_params)
         IN  IF data.positive = Nothing \/ data.positive[1] = ""
             THEN ParseError("character", "no positive prompt")
             ELSE IF position \notin CHARACTER_POSITIONS
             THEN ParseError("character", "position")
             ELSE IF ~rest.ok THEN rest
             ELSE Return(<<[index |-> index, positive |-> data.positive[1],
                            negative |-> data.negative, position |-> position]>>
                         \o rest.value[1])

\* the first call that raised, in the order of the calls
RECURSIVE FirstRaise(_)
FirstRaise(results) ==
    IF results = <<>> THEN Nothing
    ELSE IF ~Head(results).ok THEN Some(Head(results))
    ELSE FirstRaise(Tail(results))

\* mutant of ZonesFor: the flag of the command is kept
ZonesForKept(flag, characters) == flag

\* lines 259-260
ZonesFor(flag, characters) == IF Len(characters) <= 1 THEN FALSE ELSE flag

\* mutant of ReferenceFor: the reference is kept beside a base image
ReferenceForKept(reference, base_image) == reference

\* lines 262-264
ReferenceFor(reference, base_image) ==
    IF reference # Nothing /\ base_image # Nothing THEN Nothing ELSE reference

\* lines 189-299, after the pairs have been read
ParseParams(general_params, character_params) ==
    LET g(key) == Get(general_params, <<key>>)
        positive_prompt == g("positive")
        furry_mode == _parse_bool(g("furry"), "furry", FALSE)
        add_quality == _parse_bool(g("quality"), "quality", FALSE)
        base_image == OrNone(g("base_image"))
        base_strength == _parse_float(g("base_strength"), "base_strength", 7, 0, 10)
        base_noise == _parse_float(g("base_noise"), "base_noise", 0, 0, 9)
        resolution_key == IF g("resolution") = Nothing
                          THEN "portrait" ELSE g("resolution")[1]
        resolution == IF resolution_key \notin DOMAIN RESOLUTION_MAP
                      THEN ParseError("resolution", "invalid")
                      ELSE Return(RESOLUTION_MAP[resolution_key])
        steps == _parse_int(g("steps"), "steps", Some(28), Some(1), Some(28))
        guidance == _parse_float(g("guidance"), "guidance", 50, 0, 100)
        cfg_rescale == _parse_float(g("cfg_rescale"), "cfg_rescale", 0, 0, 10)
        seed == _parse_int(g("seed"), "seed", Nothing, Nothing, Nothing)
        sampler_key == IF g("sampler") = Nothing
                       THEN "k_euler_ancestral" ELSE g("sampler")[1]
        sampler == IF sampler_key \notin SAMPLERS
                   THEN ParseError("sampler", "invalid")
                   ELSE Return(sampler_key)
        zones == _parse_bool(Get(general_params, <<"char", "zones">>), "zones", FALSE)
        count == IF Cardinality(DOMAIN character_params) > 5
                 THEN ParseError("characters", "too many") ELSE Return(TRUE)
        characters == BuildCharacters(SortedSeq(DOMAIN character_params),
                                      character_params)
        reference == OrNone(Get(general_params, <<"char", "reference">>))
        reference_strength ==
            _parse_float(Get(general_params, <<"char", "reference_strength">>),
                         "reference_strength", 10, 0, 10)
        style_aware == _parse_bool(g("style_aware"), "style_aware", FALSE)
        raised == FirstRaise(<<furry_mode, add_quality, base_strength, base_noise,
                               resolution, steps, guidance, cfg_rescale, seed,
                               sampler, zones, count, characters,
                               reference_strength, style_aware>>)
    IN  IF positive_prompt = Nothing \/ positive_prompt[1] = ""
        THEN ParseError("positive", "no prompt")
        ELSE IF raised # Nothing THEN raised[1]
        ELSE Return(
            [positive_prompt |-> positive_prompt[1],
             negative_prompt |-> OrNone(g("negative")),
             negative_preset |-> "Heavy",
             model_name |-> OrNone(g("model")),
             furry_mode |-> furry_mode.value[1],
             add_quality_tags |-> add_quality.value[1],
             base_image |-> base_image,
             base_strength |-> base_strength.value[1],
             base_noise |-> base_noise.value[1],
             width |-> resolution.value[1][1],
             height |-> resolution.value[1][2],
             steps |-> IF steps.value[1] = Nothing \/ steps.value[1] = Some(0)
                       THEN 28 ELSE steps.value[1][1],
             guidance |-> guidance.value[1],
             cfg_rescale |-> cfg_rescale.value[1],
             seed |-> seed.value[1],
             sampler |-> sampler.value[1],
             use_character_zones |-> ZonesFor(zones.value[1], characters.value[1]),
             characters |-> characters.value[1],
             character_reference |-> ReferenceFor(reference, base_image),
             character_reference_strength |-> reference_strength.value[1],
             style_aware |-> style_aware.value[1]])

\* lines 135-299
parse_generation_message(msg) ==
    IF msg.prefix # "/nai" THEN ParseError("message", "prefix")
    ELSE IF msg.pairs = <<>> THEN ParseError("message", "no pairs")
    ELSE LET scan == ScanPairs(msg.pairs, <<>>, <<>>)
         IN  IF ~scan.ok THEN scan
             ELSE ParseParams(scan.value[1].general_params,
                              scan.value[1].character_params)

\* ---- the parser applied to bounded commands --------------------------------
Pair(key, value) == <<(<<key, value>>)>>

Slot(key, values) == {<<>>} \cup {Pair(key, v) : v \in values}

CharKey(i, suffix) == <<"char", ToString(i), suffix>>

\* the keys a command gives for character i
CharacterSlot(i) ==
    {<<>>,
     Pair(CharKey(i, "positive"), "girl"),
     Pair(CharKey(i, "positive"), "girl") \o Pair(CharKey(i, "position"), <<"a", "1">>),
     Pair(CharKey(i, "positive"), ""),
     Pair(CharKey(i, "negative"), "hat"),
     Pair(CharKey(i, "position"), <<"B", "2">>)}

RECURSIVE CharacterSlots(_)
CharacterSlots(n) ==
    IF n = 0 THEN {<<>>}
    ELSE {rest \o slot : rest \in CharacterSlots(n - 1), slot \in CharacterSlot(n)}

\* commands whose pairs use the keys of the interface, with keys for the
\* characters 1..n
KeyedMessages(n) ==
    {[prefix |-> "/nai", pairs |-> positive \o steps \o resolution \o base
                                     \o reference \o zones \o chars] :
        positive \in Slot(<<"positive">>, {"1girl"}),
        steps \in Slot(<<"steps">>, {"", "0", "28", "30", "x"}),
        resolution \in Slot(<<"resolution">>,
                            {"", "portrait", "landscape", "square", "wide"}),
        base \in Slot(<<"base_image">>, {"img"}),
        reference \in Slot(<<"char", "reference">>, {"ref"}),
        zones \in Slot(<<"char", "zones">>, {"shi", "fou"}),
        chars \in CharacterSlots(n)}

\* commands with a wrong prefix, a malformed or unknown key, a repeated key,
\* and the keys that KeyedMessages leaves out
OtherMessages ==
    {[prefix |-> "/img", pairs |-> Pair(<<"positive">>, "1girl")],
     [prefix |-> "/nai", pairs |-> <<>>]}
    \cup
    {[prefix |-> "/nai", pairs |-> Pair(<<"positive">>, "1girl") \o more] :
        more \in
          {Pair(<<"size">>, "big"),
           Pair(<<"char">>, "girl"),
           Pair(<<"char", "position">>, <<"A", "1">>),
           Pair(<<"char", "x", "positive">>, "girl"),
           Pair(<<"char", "9", "positive">>, "girl"),
           Pair(<<"char", "0", "1", "positive">>, "girl"),
           Pair(<<"steps">>, "30") \o Pair(<<"steps">>, "28"),
           Pair(<<"steps">>, "-1"), Pair(<<"steps">>, "1"),
           Pair(<<"char", "zones">>, "maybe"),
           Pair(CharKey(1, "positive"), "girl") \o Pair(CharKey(1, "negative"), "hat"),
           Pair(CharKey(1, "positive"), "girl")
               \o Pair(CharKey(1, "position"), <<"F", "9">>),
           Pair(CharKey(2, "negative"), "hat") \o Pair(CharKey(2, "positive"), "boy")
               \o Pair(CharKey(1, "positive"), "girl")
               \o Pair(<<"char", "zones">>, "shi"),
           Pair(<<"seed">>, "0"), Pair(<<"seed">>, "42"), Pair(<<"seed">>, "x"),
           Pair(<<"sampler">>, "k_euler"), Pair(<<"sampler">>, "ddim"),
           Pair(<<"furry">>, "yes"), Pair(<<"quality">>, "always"),
           Pair(<<"base_strength">>, "0.5"), Pair(<<"base_noise">>, "1"),
           Pair(<<"guidance">>, "1.5"), Pair(<<"cfg_rescale">>, "2"),
           Pair(<<"negative">>, "blurry"), Pair(<<"model">>, "nai-diffusion-3"),
           Pair(<<"style_aware">>, "shi"),
           Pair(<<"char", "reference_strength">>, "0.5")}}

Messages(n) == KeyedMessages(n) \cup OtherMessages

InitParse ==
    /\ QueueConstructed
    /\ message \in {Some(m) : m \in Messages(MaxChars)}
    /\ parsed = Nothing
    /\ request = Nothing
    /\ compiled = Nothing
    /\ OthersIdle

\* one call of parse_generation_message on the command
Parse ==
    /\ message # Nothing
    /\ parsed' = Some(parse_generation_message(message[1]))
    /\ UNCHANGED <<qvars, message, request, compiled, others>>

NextParse == Parse

SpecParse == InitParse /\ [][NextParse]_vars

\* ---- the compiler's writes, on objects ------------------------------------
\* Python passes ParsedParams and payload dicts by reference.  The operators
\* below follow the calls on a store of objects h: a reference is an index of
\* h, an allocation (a dict display, deepcopy) appends an object, and a write
\* replaces the object at the reference it goes through.  Each returns the
\* store after the call and the outcome, whose value is a reference.
Called(h, result) == [objects |-> h, result |-> result]

\* mutant of build_image2image_on: the writes go through the given reference
build_image2image_alias(h, payload, kwargs) ==
    LET out == _build_image2image(h[payload], kwargs)
    IN  IF out.ok
        THEN Called([h EXCEPT ![payload] = out.value[1]], Return(payload))
        ELSE Called(h, out)

\* nai_models.py lines 121-142: new_payload is a deep copy (line 124), the
\* writes of lines 125-136 go to the copy
build_image2image_on(h, payload, kwargs) ==
    LET copied == Append(h, h[payload])
        new_payload == Len(copied)
        out == _build_image2image(copied[new_payload], kwargs)
    IN  IF out.ok
        THEN Called([copied EXCEPT ![new_payload] = out.value[1]],
                    Return(new_payload))
        ELSE Called(copied, out)

\* nai_models.py lines 145-159: the copy made by _build_image2image is
\* written at lines 150-154
build_inpaint_on(h, payload, kwargs) ==
    LET wrapped == build_image2image_on(h, payload, kwargs)
        out == _build_inpaint(h[payload], kwargs)
    IN  IF ~wrapped.result.ok THEN wrapped
        ELSE IF out.ok
        THEN Called([wrapped.objects EXCEPT ![wrapped.result.value[1]] =
                        out.value[1]], wrapped.result)
        ELSE Called(wrapped.objects, out)

\* nai_api.py lines 65-199: the builder allocates the payload (line 129),
\* lines 167-186 write to it, lines 188-197 replace it by the wrappers' copies
build_payload_on(h, given, model, base_image, mask_image, character_reference, rnd) ==
    LET built == build_payload(h[given], model, Nothing, Nothing,
                               character_reference, rnd)
    IN  IF ~built.ok THEN Called(h, built)
        ELSE
        LET allocated == Append(h, built.value[1].payload)
            seed == built.value[1].seed
            kwargs == [image |-> Nothing, mask |-> Nothing,
                       strength |-> h[given].base_strength,
                       noise |-> h[given].base_noise,
                       extra_noise_seed |-> seed, color_correct |-> FALSE]
            img == IF Truthy(base_image)
                   THEN build_image2image_on(allocated, Len(allocated),
                            [kwargs EXCEPT !.image = base_image])
                   ELSE Called(allocated, Return(Len(allocated)))
        IN  IF ~img.result.ok THEN img
            ELSE IF Truthy(mask_image)
            THEN build_inpaint_on(img.objects, img.result.value[1],
                                  [kwargs EXCEPT !.mask = mask_image])
            ELSE img

\* ---- the compiler applied to objects --------------------------------------
IsPayload(object) == "action" \in DOMAIN object

\* the payloads the builders return for the default request
BuiltPayloads ==
    {build_payload(DefaultParams, m, Nothing, Nothing, r, 42).value[1].payload :
        m \in MODELS, r \in Images("ref")}

\* the keyword arguments of a wrapper call
WrapperKwargs ==
    {[image |-> i, mask |-> k, strength |-> 7, noise |-> 0,
      extra_noise_seed |-> sd, color_correct |-> FALSE] :
        i \in Images("base"), k \in Images("mask"), sd \in ExplicitSeeds}

\* one ParsedParams object, or one payload a builder returned
InitObjects ==
    /\ QueueConstructed
    /\ PipelineIdle
    /\ PositionIdle /\ LLMIdle /\ AccessIdle /\ QuotaIdle /\ NLIdle
    /\ \/ objects \in {<<p>> : p \in CompileParams(MaxChars)}
       \/ objects \in {<<p>> : p \in BuiltPayloads}
    /\ outcome = Nothing

Applied(fn, given, called) ==
    /\ objects' = called.objects
    /\ outcome' = Some([fn |-> fn, given |-> given, result |-> called.result])
    /\ UNCHANGED <<qvars, pipeline, posvars, llmvars, acvars, quotavars, nlvars>>

\* one call of build_payload on the ParsedParams object
BuildPayloadOn ==
    /\ outcome = Nothing
    /\ ~IsPayload(objects[1])
    /\ \E m \in MODELS \cup {"nai-diffusion-2"}, b \in Images("base"),
          k \in Images("mask"), r \in Images("ref"), rnd \in RandomSeeds :
         Applied("build_payload", 1,
                 build_payload_on(objects, 1, m, b, k, r, rnd))

\* a call of build_image2image on a payload object
BuildImage2ImageOn ==
    /\ Len(objects) < MaxObjects
    /\ \E given \in 1..Len(objects), kwargs \in WrapperKwargs :
         /\ IsPayload(objects[given])
         /\ Applied("build_image2image", given,
                    build_image2image_on(objects, given, kwargs))

\* a call of build_inpaint on a payload object
BuildInpaintOn ==
    /\ Len(objects) < MaxObjects
    /\ \E given \in 1..Len(objects), kwargs \in WrapperKwargs :
         /\ IsPayload(objects[given])
         /\ Applied("build_inpaint", given,
                    build_inpaint_on(objects, given, kwargs))

NextObjects == BuildPayloadOn \/ BuildImage2ImageOn \/ BuildInpaintOn

SpecObjects == InitObjects /\ [][NextObjects]_vars

\* ---- position_to_float applied to bounded codes ---------------------------
\* the characters a code is made of: the letters and digits of the grid,
\* a letter and digits outside it, lower-case letters
CodeChars == {"A", "B", "C", "D", "E", "F", "a", "e",
              "0", "1", "2", "3", "4", "5", "6"}

RECURSIVE Codes(_)
\* the codes of at most n characters
Codes(n) ==
    IF n = 0 THEN {<<>>}
    ELSE LET shorter == Codes(n - 1)
         IN  shorter \cup {Append(c, ch) : c \in {d \in shorter : Len(d) = n - 1},
                                            ch \in CodeChars}

InitPosition ==
    /\ QueueConstructed
    /\ PipelineIdle
    /\ code \in {Some(c) : c \in Codes(MaxCode)}
    /\ point = Nothing
    /\ ObjectsIdle /\ LLMIdle /\ AccessIdle /\ QuotaIdle /\ NLIdle

\* one call of position_to_float on the code
PositionToFloat ==
    /\ code # Nothing
    /\ point' = Some(position_to_float(code[1]))
    /\ UNCHANGED <<qvars, pipeline, code, objvars, llmvars, acvars, quotavars, nlvars>>

NextPosition == PositionToFloat

SpecPosition == InitPosition /\ [][NextPosition]_vars

\* ---- llm_client.py ---------------------------------------------------------
\* What the service does with the request for one model (lines 167-192):
\*   "timeout"       asyncio.TimeoutError
\*   "client_error"  aiohttp.ClientError
\*   "status"        a status other than 200: LLMError "... 返回错误 ..."
\*   "error"         a body with an "error" entry: LLMError "... API 错误 ..."
\*   "no_choices"    a body without choices: LLMError "... 返回空响应"
\*   "content"       a body whose first choice has the given content, a
\*                   sequence of characters; empty: LLMError "... 返回空内容"
\* An LLMError is named by the kind of answer that caused it.
Failed(kind) == [kind |-> kind, content |-> <<>>]

Responses ==
    {Failed(k) : k \in {"timeout", "client_error", "status", "error", "no_choices"}}
    \cup {[kind |-> "content", content |-> c] :
             c \in {<<>>, <<"a">>, <<" ", "a", " ">>}}

RECURSIVE LStrip(_)
LStrip(text) ==
    IF text # <<>> /\ Head(text) = " " THEN LStrip(Tail(text)) ELSE text

RECURSIVE RStrip(_)
RStrip(text) ==
    IF text # <<>> /\ text[Len(text)] = " "
    THEN RStrip(SubSeq(text, 1, Len(text) - 1)) ELSE text

\* content.strip()
Strip(text) == RStrip(LStrip(text))

\* lines 161-192: the request for one model; the content returned, or the
\* exception raised inside the try block
Request(response) ==
    CASE response.kind = "content" ->
           IF response.content = <<>> THEN Raise("no_content")
           ELSE Return(Strip(response.content))
      [] OTHER -> Raise(response.kind)

\* line 196: '"返回错误" in str(exc) or "API 错误" in str(exc)', for the
\* LLMError of lines 170-192
Reraised(error) == error \in {"status", "error"}

\* ---- generate applied to bounded model lists --------------------------------
ModelName(i) == ToString(i)

\* lines 65-75: a non-empty model list; last_used_model is None after
\* construction and names a model of the list after an earlier call
InitLLM ==
    /\ QueueConstructed
    /\ PipelineIdle
    /\ PositionIdle /\ ObjectsIdle /\ AccessIdle /\ QuotaIdle /\ NLIdle
    /\ \E n \in 1..MaxModels :
         /\ models = [i \in 1..n |-> ModelName(i)]
         /\ responses \in [1..n -> Responses]
         /\ last_used_model \in {Nothing} \cup {Some(ModelName(i)) : i \in 1..n}
    /\ attempts = 0
    /\ last_error = Nothing
    /\ reply = Nothing

\* lines 137-205: one pass of the loop, from one suspension of generate to
\* the next; the first pass starts with lines 137-155, the last one ends
\* with lines 202-205
Post ==
    /\ reply = Nothing
    /\ attempts < Len(models)
    /\ LET model == models[attempts + 1]
           out == Request(responses[attempts + 1])
           cleared == IF attempts = 0 THEN Nothing ELSE last_used_model
       IN  /\ attempts' = attempts + 1
           /\ IF out.ok
              THEN /\ last_used_model' = Some(model)
                   /\ reply' = Some(out)
                   /\ UNCHANGED last_error
              ELSE IF Reraised(out.error)
              THEN /\ last_used_model' = cleared
                   /\ reply' = Some(out)
                   /\ UNCHANGED last_error
              ELSE /\ last_used_model' = cleared
                   /\ last_error' = Some(out.error)
                   /\ reply' = IF attempts + 1 = Len(models)
                               THEN Some(out) ELSE reply
    /\ UNCHANGED <<models, responses>>
    /\ UNCHANGED <<qvars, pipeline, posvars, objvars, acvars, quotavars, nlvars>>

NextLLM == Post

SpecLLM == InitLLM /\ [][NextLLM]_vars

\* ---- access_control.py ------------------------------------------------------
\* The store maps a qq to its record; of a UserQuota the fields daily_limit,
\* remaining and last_reset (in minutes) are kept.  Every operation runs
\* under the lock and is one step; it gives the store after the call and
\* the outcome of the call.  t is the time of the call.
QQs == {ToString(i) : i \in 1..MaxUsers}

Done_(store, result) == [users |-> store, result |-> result]

\* lines 73-90
_get_user(store, qq) == IF qq \in DOMAIN store THEN Some(store[qq]) ELSE Nothing

\* lines 92-93
_set_user(store, qq, user) ==
    [q \in DOMAIN store \cup {qq} |-> IF q = qq THEN user ELSE store[q]]

\* lines 95-124, for a user without refresh_interval_minutes
_auto_reset_user(user, t) ==
    IF t - user.last_reset >= refresh_interval
    THEN [user EXCEPT !.last_reset = t, !.remaining = user.daily_limit]
    ELSE user

\* lines 134-153; limit is Nothing or Some(n), 'limit or default' takes the
\* default for None and for 0
add_to_whitelist(store, qq, limit, t) ==
    LET daily_limit == IF limit # Nothing /\ limit[1] # 0
                       THEN limit[1] ELSE default_daily_limit
        user == [daily_limit |-> daily_limit, remaining |-> daily_limit,
                 last_reset |-> t]
    IN  Done_(_set_user(store, qq, user), Return(user))

\* lines 191-224, without nickname, groups and refresh interval
set_quota(store, qq, limit, t) ==
    IF limit <= 0 THEN Done_(store, Raise("ValueError"))
    ELSE LET found == _get_user(store, qq)
             user == IF found = Nothing
                     THEN [daily_limit |-> limit, remaining |-> limit,
                           last_reset |-> t]
                     ELSE [found[1] EXCEPT
                             !.daily_limit = limit,
                             !.remaining = IF found[1].remaining < limit
                                           THEN found[1].remaining ELSE limit]
         IN  Done_(_set_user(store, qq, user), Return(user))

\* lines 226-234
check_quota(store, qq, t) ==
    LET found == _get_user(store, qq)
    IN  IF found = Nothing THEN Done_(store, Return(FALSE))
        ELSE LET user == _auto_reset_user(found[1], t)
             IN  Done_(_set_user(store, qq, user), Return(user.remaining > 0))

\* lines 236-247
consume_quota(store, qq, t) ==
    LET found == _get_user(store, qq)
    IN  IF found = Nothing THEN Done_(store, Raise("ValueError"))
        ELSE LET user == _auto_reset_user(found[1], t)
             IN  IF user.remaining <= 0 THEN Done_(store, Raise("ValueError"))
                 ELSE Done_(_set_user(store, qq,
                                [user EXCEPT !.remaining = user.remaining - 1]),
                            Return(Nothing))

\* lines 249-255
reset_daily_quota(store, t) ==
    Done_([q \in DOMAIN store |-> _auto_reset_user(store[q], t)], Return(Nothing))

\* lines 257-267
get_user_info(store, qq, t) ==
    LET found == _get_user(store, qq)
    IN  IF found = Nothing THEN Done_(store, Return(Nothing))
        ELSE LET user == _auto_reset_user(found[1], t)
             IN  Done_(_set_user(store, qq, user), Return(Some(user)))

\* ---- the store under bounded calls ------------------------------------------
\* the limits callers pass: negative, zero, positive
Limits == (0 - 1)..MaxLimit

\* lines 40-45: an empty store
InitAccess ==
    /\ QueueConstructed
    /\ PipelineIdle
    /\ PositionIdle /\ ObjectsIdle /\ LLMIdle /\ QuotaIdle /\ NLIdle
    /\ users = <<>>
    /\ now = 0
    /\ answer = Nothing

Answered(op, qq, done) ==
    /\ users' = done.users
    /\ answer' = Some([op |-> op, qq |-> qq, result |-> done.result])
    /\ UNCHANGED now
    /\ UNCHANGED <<qvars, pipeline, posvars, objvars, llmvars, quotavars, nlvars>>

AddToWhitelist ==
    \E qq \in QQs, limit \in {Nothing} \cup {Some(n) : n \in Limits} :
        Answered("add_to_whitelist", qq, add_to_whitelist(users, qq, limit, now))

SetQuota ==
    \E qq \in QQs, limit \in Limits :
        Answered("set_quota", qq, set_quota(users, qq, limit, now))

CheckQuota ==
    \E qq \in QQs : Answered("check_quota", qq, check_quota(users, qq, now))

ConsumeQuota ==
    \E qq \in QQs : Answered("consume_quota", qq, consume_quota(users, qq, now))

ResetDailyQuota ==
    Answered("reset_daily_quota", "", reset_daily_quota(users, now))

GetUserInfo ==
    \E qq \in QQs : Answered("get_user_info", qq, get_user_info(users, qq, now))

\* the clock advances by half a refresh interval
Tick ==
    /\ now < MaxTicks * (refresh_interval \div 2)
    /\ now' = now + refresh_interval \div 2
    /\ UNCHANGED <<users, answer>>
    /\ UNCHANGED <<qvars, pipeline, posvars, objvars, llmvars, quotavars, nlvars>>

NextAccess ==
    \/ AddToWhitelist
    \/ SetQuota
    \/ CheckQuota
    \/ ConsumeQuota
    \/ ResetDailyQuota
    \/ GetUserInfo
    \/ Tick

SpecAccess == InitAccess /\ [][NextAccess]_vars

\* ---- the quota around the request queue (main.py) -------------------------
\* the generate_image calls made so far, over all users
RECURSIVE Calls(_)
Calls(qqs) ==
    IF qqs = {} THEN 0
    ELSE LET qq == CHOOSE q \in qqs : TRUE
         IN  generated[qq] + Calls(qqs \ {qq})

\* every user is whitelisted with a limit given by set_quota, at the start
\* of a quota period; the queue is empty and its worker is idle
InitQuota ==
    /\ QueueConstructed
    /\ PipelineIdle
    /\ PositionIdle /\ ObjectsIdle /\ LLMIdle /\ NLIdle
    /\ \E limit \in [QQs -> 1..MaxLimit] :
         users = [qq \in QQs |-> set_quota(<<>>, qq, limit[qq], 0).users[qq]]
    /\ now = 0
    /\ answer = Nothing
    /\ pending = <<>>
    /\ inflight = Nothing
    /\ generated = [qq \in QQs |-> 0]

\* lines 244-285: a generation command of user qq: check_quota, then (image
\* extraction and compilation, which do not touch the store) enqueue
Accept(qq) ==
    /\ Len(pending) + Calls(QQs) < MaxRequests
    /\ LET done == check_quota(users, qq, now)
       IN  /\ users' = done.users
           /\ pending' = IF done.result.value[1]
                         THEN Append(pending, qq) ELSE pending
    /\ UNCHANGED <<inflight, generated>>
    /\ UNCHANGED <<now, answer>>
    /\ UNCHANGED <<qvars, pipeline, posvars, objvars, llmvars, nlvars>>

\* lines 295-309: the worker hands the next request to _process_queue_item,
\* which calls generate_image
Generate ==
    /\ inflight = Nothing
    /\ pending # <<>>
    /\ inflight' = Some(Head(pending))
    /\ pending' = Tail(pending)
    /\ generated' = [generated EXCEPT ![Head(pending)] = @ + 1]
    /\ UNCHANGED users
    /\ UNCHANGED <<now, answer>>
    /\ UNCHANGED <<qvars, pipeline, posvars, objvars, llmvars, nlvars>>

\* lines 309-311: generate_image returned, consume_quota
Consume ==
    /\ inflight # Nothing
    /\ users' = consume_quota(users, inflight[1], now).users
    /\ inflight' = Nothing
    /\ UNCHANGED <<pending, generated>>
    /\ UNCHANGED <<now, answer>>
    /\ UNCHANGED <<qvars, pipeline, posvars, objvars, llmvars, nlvars>>

\* lines 321-325: generate_image raised
GenerateFails ==
    /\ inflight # Nothing
    /\ inflight' = Nothing
    /\ UNCHANGED <<users, pending, generated>>
    /\ UNCHANGED <<now, answer>>
    /\ UNCHANGED <<qvars, pipeline, posvars, objvars, llmvars, nlvars>>

NextQuota ==
    \/ \E qq \in QQs : Accept(qq)
    \/ Generate
    \/ Consume
    \/ GenerateFails

SpecQuota == InitQuota /\ [][NextQuota]_vars

\* ---- the temporary override of /nainl (main.py) ---------------------------
\* The handler is an async generator: it runs without interruption from one
\* suspension point to the next. Between lines 864 and 924 it is suspended at
\* a yield (the reply is sent by the caller) and at the await of an image
\* download in _extract_images (lines 529 and 536).
\* what one run of the handler holds: its position, what it was sent, and its
\* local variables original_quality_words .. original_api_preset
Arrived ==
    [pc |-> "start", is_group |-> FALSE, model_name |-> Nothing,
     original_quality_words |-> "", original_preset_uc |-> "",
     original_api_quality |-> "", original_api_preset |-> ""]

NLState(cfg, api, req) == [config |-> cfg, nai_api |-> api, req |-> req]

\* lines 877-879, 887-889, 913-914, 920-921
RestoreConfig(cfg, req) ==
    [cfg EXCEPT !.quality_words = req.original_quality_words,
                !.preset_uc = req.original_preset_uc]

\* lines 915-916, 922-923
RestoreAPI(api, req) ==
    [api EXCEPT !.quality_words = req.original_api_quality,
                !.preset_uc = req.original_api_preset]

\* lines 867-871 and 897-901: a non-empty override replaces the value
ApplyOverride(target, nl_settings) ==
    IF nl_settings = Nothing THEN target
    ELSE [target EXCEPT
            !.quality_words =
                IF nl_settings[1].quality_words_override # ""
                THEN nl_settings[1].quality_words_override ELSE @,
            !.preset_uc =
                IF nl_settings[1].negative_preset_override # ""
                THEN nl_settings[1].negative_preset_override ELSE @]

\* lines 892-924, from the end of _extract_images to the enqueue: the values of
\* the API object are saved and overridden, build_payload is called (it raises
\* NovelAIAPIError for a model without a builder, nai_api.py lines 74-76), and
\* everything is restored; before the restore of the except branch a reply
\* is yielded in a private chat
Compile(cfg, api, req, model) ==
    LET saved == [req EXCEPT !.original_api_quality = api.quality_words,
                             !.original_api_preset = api.preset_uc]
        overridden == ApplyOverride(api, cfg.nl_settings)
    IN  IF model \notin DOMAIN _MODEL_BUILDERS /\ ~req.is_group
        THEN NLState(cfg, overridden, [saved EXCEPT !.pc = "yield_compile"])
        ELSE NLState(RestoreConfig(cfg, saved), RestoreAPI(overridden, saved),
                     [saved EXCEPT !.pc = "done"])

\* lines 864-890, then Compile: images is what _extract_images does, "none"
\* when the command names no image, "missing" when it raises ValueError,
\* "download" when it awaits the download of a named image
Override(cfg, api, req, images) ==
    LET saved == [req EXCEPT !.original_quality_words = cfg.quality_words,
                             !.original_preset_uc = cfg.preset_uc]
        overridden == ApplyOverride(cfg, cfg.nl_settings)
        model == IF req.model_name # Nothing THEN req.model_name[1]
                 ELSE cfg.default_model
    IN  IF model \notin MODELS
        THEN IF req.is_group
             THEN NLState(RestoreConfig(overridden, saved), api,
                          [saved EXCEPT !.pc = "done"])
             ELSE NLState(overridden, api, [saved EXCEPT !.pc = "yield_model"])
        ELSE CASE images = "download" ->
                    NLState(overridden, api, [saved EXCEPT !.pc = "extract"])
               [] images = "missing" ->
                    IF req.is_group
                    THEN NLState(RestoreConfig(overridden, saved), api,
                                 [saved EXCEPT !.pc = "done"])
                    ELSE NLState(overridden, api,
                                 [saved EXCEPT !.pc = "yield_extract"])
               [] OTHER -> Compile(overridden, api, saved, model)

\* lines 1125 and 946-952: the configuration as loaded (default_model has
\* passed _ensure_model), the API object constructed from it, no request yet
Loaded ==
    {[quality_words |-> "best quality", preset_uc |-> "lowres",
      default_model |-> "nai-diffusion-4-5-curated", nl_settings |-> n] :
        n \in {Nothing} \cup
              {Some([quality_words_override |-> q,
                     negative_preset_override |-> u]) :
                    q \in {"", "masterpiece"}, u \in {"", "blurry"}}}

InitNL ==
    /\ QueueConstructed
    /\ PipelineIdle
    /\ PositionIdle /\ ObjectsIdle /\ LLMIdle /\ AccessIdle /\ QuotaIdle
    /\ config \in Loaded
    /\ nai_api = [quality_words |-> config.quality_words,
                  preset_uc |-> config.preset_uc]
    /\ nainl = <<>>

Becomes(r, next) ==
    /\ config' = next.config
    /\ nai_api' = next.nai_api
    /\ nainl' = [nainl EXCEPT ![r] = next.req]
    /\ UNCHANGED <<qvars, pipeline, posvars, objvars, llmvars, acvars, quotavars>>

\* lines 707-862: a /nainl command arrives and is turned into parameters
\* (permission, quota, LLM and parser do not touch the configuration)
Arrive ==
    /\ Len(nainl) < MaxRequests
    /\ \E is_group \in BOOLEAN, model_name \in {Nothing, Some("nai-diffusion-2")} :
         nainl' = Append(nainl, [Arrived EXCEPT !.is_group = is_group,
                                               !.model_name = model_name])
    /\ UNCHANGED <<config, nai_api>>
    /\ UNCHANGED <<qvars, pipeline, posvars, objvars, llmvars, acvars, quotavars>>

\* lines 864-924, up to the first suspension
Begin(r) ==
    /\ nainl[r].pc = "start"
    /\ \E images \in {"none", "missing", "download"} :
         Becomes(r, Override(config, nai_api, nainl[r], images))

\* lines 529/536 and 892-924: the download is over (the model of a request
\* that got as far as _extract_images is the default model)
Downloaded(r) ==
    /\ nainl[r].pc = "extract"
    /\ Becomes(r, Compile(config, nai_api, nainl[r], config.default_model))

\* lines 877-880, 887-890, 913-917 and 920-923: resumed after the yield
Resume(r) ==
    /\ nainl[r].pc \in {"yield_model", "yield_extract", "yield_compile"}
    /\ Becomes(r, NLState(RestoreConfig(config, nainl[r]),
                          IF nainl[r].pc = "yield_compile"
                          THEN RestoreAPI(nai_api, nainl[r]) ELSE nai_api,
                          [nainl[r] EXCEPT !.pc = "done"]))

NextNL ==
    \/ Arrive
    \/ \E r \in DOMAIN nainl : Begin(r)
    \/ \E r \in DOMAIN nainl : Downloaded(r)
    \/ \E r \in DOMAIN nainl : Resume(r)

SpecNL == InitNL /\ [][NextNL]_vars

\* ---- properties of the request queue ------------------------------------
InHandler == {w \in Tasks : workers[w].pc = "handler"}

\* worker w leaves _worker in this step
Exits(w) == workers[w].pc # "done" /\ workers'[w].pc = "done"

\* worker w invokes the handler in this step
Invokes(w) ==
    /\ workers'[w].pc = "handler"
    /\ workers[w].pc # "handler" \/ workers[w].item # workers'[w].item

\* worker w is through with an item in this step (handler and callback over)
Finishes(w) ==
    /\ workers[w].pc \in {"handler", "error_handler"}
    /\ workers'[w].pc # "error_handler"
    /\ workers'[w].pc = "handler" => workers'[w].item # workers[w].item

\* the handler invocation of worker w raises in this step
Raises(w) ==
    /\ workers[w].pc = "handler"
    /\ workers'[w].pc # "handler" \/ workers'[w].item # workers[w].item
    /\ workers'[w].exc

\* worker w calls the error callback in this step
CallsBack(w) ==
    /\ workers'[w].pc = "error_handler"
    /\ workers[w].pc # "error_handler"

\* worker w is still in its loop after the step, or left it on a stop()
StaysInLoop(w) ==
    \/ workers'[w].pc \in {"sleep", "get"}
    \/ workers'[w].pc = "done" /\ ~_running

\* the items that lie behind a stop sentinel in channel q
BehindSentinel(q) ==
    {q[j] : j \in {k \in 1..Len(q) : q[k] # None /\ \E i \in 1..(k - 1) : q[i] = None}}

\* an item lies in front of a stop sentinel in channel q
ItemBeforeSentinel(q) ==
    \E i, j \in 1..Len(q) : i < j /\ q[i] # None /\ q[j] = None

\* stop() call s returns in this step
Returns(s) == stops[s].st # "returned" /\ stops'[s].st = "returned"

\* C1: at most one invocation of the handler is in progress at any moment.
C1_AtMostOneHandler == Cardinality(InHandler) <= 1

\* C2: items reach the handler in the order in which they were enqueued
\* (item ids are handed out in enqueue order, so the invocation log ascends).
C2_FifoOrder ==
    \A i, j \in 1..Len(handled) : i < j => handled[i] < handled[j]

C2_Witness == Len(handled) >= 2

\* C3: every item that precedes the stop sentinel in the channel is passed to
\* the handler before the worker exits: a worker never exits while an item
\* still lies in front of a sentinel.
C3_HandledBeforeExit ==
    [][\A w \in Tasks : Exits(w) => ~ItemBeforeSentinel(queue)]_vars

C6_StopWaitsForWorker ==
    [][\A s \in StopCalls : Returns(s) =>
          \A w \in (IF stops[s].st = "idle" THEN Alive ELSE stops[s].active) :
              workers'[w].pc = "done"]_vars

\* C7: start() is idempotent: no worker is spawned while one is active, and
\* a start() spawns at most one.
C7_StartIdempotent ==
    [][/\ Alive # {} => Alive' \subseteq Alive
       /\ Cardinality(Spawned') <= Cardinality(Spawned) + 1]_vars

\* C8: the items behind the stop sentinel are drained as part of the stop, so
\* that they can never reach the handler: when a worker exits, no item that
\* lay behind a sentinel is left in the channel.
C8_BehindSentinelDrained ==
    [][\A w \in Tasks : Exits(w) =>
          BehindSentinel(queue) \cap ItemsOf(queue') = {}]_vars

\* C9 as claimed: an item enqueued while no worker is active, over which a
\* stop() is called before the next start(), is never handled.
C9_StopDiscardsBuffered == stopHit \cap Range(handled) = {}

\* C9 as amended: an item enqueued while no worker is active stays in the
\* channel until the next start(), whatever stop() calls are made meanwhile.
C9_BufferedSurvivesStop == buffered \subseteq ItemsOf(queue)

C9_Witness == \E i \in stopHit : i \in Range(handled)

\* C10 as claimed: once the handler has been invoked, every further
\* invocation is made by a worker coming out of the inter-item delay.
C10_AlwaysDelayed ==
    [][\A w \in Tasks : (Invokes(w) /\ handled # <<>>) =>
          workers[w].pc = "sleep"]_vars

\* C10 as amended: when an item is through and the channel is not empty, the
\* worker waits a delay within [min_delay, max_delay] before it takes the
\* next entry; the handler is invoked only by a worker that starts, comes
\* out of get() or comes out of the delay.
C10_DelayWhenPending ==
    /\ [][\A w \in Tasks : (Finishes(w) /\ queue # <<>>) =>
            /\ workers'[w].pc = "sleep"
            /\ workers'[w].delay \in min_delay..max_delay
            /\ queue' = queue]_vars
    /\ [][\A w \in Tasks : Invokes(w) =>
            workers[w].pc \in {"ready", "get", "sleep"}]_vars

C10_Witness ==
    \E w \in Tasks :
        /\ workers[w].pc = "sleep"
        /\ workers[w].delay = max_delay
        /\ handled # <<>>
        /\ ItemsOf(queue) # {}

\* stop() call s was made right after a start(): the worker that start()
\* spawned has not run yet and the channel holds nothing but the sentinel of s.
StopRightAfterStart(s) ==
    /\ stops[s].st = "waiting"
    /\ workers[stops[s].awaiting].pc = "ready"
    /\ _task = stops[s].awaiting
    /\ queue = <<None>>

\* C11: when stop() is called right after start() on an empty channel and
\* nothing is enqueued, the stop() call eventually returns, and the handler
\* is never invoked.
C11_StopAfterStartReturns ==
    /\ \A s \in StopCalls :
          StopRightAfterStart(s) ~> (stops[s].st = "returned")
    /\ [](handled = <<>>)

\* ---- properties of the payload compiler ----------------------------------
\* a call of build_payload has been made on a supported model
Compiled == compiled # Nothing /\ request[1].model \in MODELS

\* C12: the action tag follows the supplied images: 'generate' with neither
\* a base image nor a mask, 'img2img' with a base image only, 'inpaint' with
\* a mask beside a base image; in the inpaint case build_payload returns a
\* payload that carries the source image and the mask and has
\* add_original_image false.
C12_ActionByImages ==
    Compiled =>
        LET r == request[1]
            c == compiled[1]
            base == Truthy(r.base_image)
            mask == Truthy(r.mask_image)
        IN  /\ ~base /\ ~mask =>
                c.ok /\ c.value[1].payload.action = "generate"
            /\ base /\ ~mask =>
                c.ok /\ c.value[1].payload.action = "img2img"
            /\ base /\ mask =>
                /\ c.ok
                /\ c.value[1].payload.action = "inpaint"
                /\ c.value[1].payload.parameters.image = r.base_image
                /\ c.value[1].payload.parameters.mask = r.mask_image
                /\ c.value[1].payload.parameters.add_original_image = FALSE

\* the result of the same call on a request without characters
WithoutCharacters(rnd) ==
    build_payload([request[1].parsed EXCEPT !.characters = <<>>],
                  request[1].model, request[1].base_image,
                  request[1].mask_image, request[1].character_reference, rnd)

\* C13: character zones are active exactly when use_character_zones is true
\* and the character list is non-empty.  When active, the payload holds one
\* caption entry per character, in index order, with the center of the
\* character's position, in the positive and in the negative caption list,
\* and the main prompts hold no character text.  When characters exist and
\* zones are inactive, the caption lists are empty and the characters'
\* positive and negative texts are appended, in index order, to the main
\* prompt and to the main negative prompt.
C13_CharacterZones ==
    (Compiled /\ compiled[1].ok) =>
        LET params == request[1].parsed
            chars == params.characters
            payload == compiled[1].value[1].payload
            plain == WithoutCharacters(compiled[1].value[1].seed).value[1].payload
            pos == payload.parameters.v4_prompt.caption.char_captions
            neg == payload.parameters.v4_negative_prompt.caption.char_captions
            active == payload.parameters.use_coords
            negtext(i) == IF chars[i].negative = Nothing
                          THEN <<>> ELSE chars[i].negative[1]
        IN  /\ active <=> (params.use_character_zones /\ chars # <<>>)
            /\ active =>
                /\ Len(pos) = Len(chars) /\ Len(neg) = Len(chars)
                /\ \A i \in 1..Len(chars) :
                     /\ pos[i].char_caption = chars[i].positive
                     /\ neg[i].char_caption = negtext(i)
                     /\ pos[i].centers = <<_character_center(chars[i])>>
                     /\ neg[i].centers = <<_character_center(chars[i])>>
                /\ payload.input = plain.input
                /\ payload.parameters.negative_prompt = plain.parameters.negative_prompt
            /\ ~active =>
                /\ pos = <<>> /\ neg = <<>>
                /\ payload.input =
                     plain.input \o Join([i \in 1..Len(chars) |-> chars[i].positive])
                /\ payload.parameters.negative_prompt =
                     plain.parameters.negative_prompt
                       \o Join([i \in 1..Len(chars) |-> negtext(i)])

C13_Witness ==
    /\ Compiled /\ compiled[1].ok
    /\ Len(request[1].parsed.characters) = 2
    /\ ~request[1].parsed.use_character_zones
    /\ compiled[1].value[1].payload.input = <<"1girl", "girl", "boy">>

\* C14: build_payload fails with the compiler error exactly when the model
\* is not one of the six supported identifiers, and then produces no
\* payload; for each of the six, with no characters, default flags and no
\* images, it returns a payload whose model is the requested model and whose
\* action is 'generate'.
C14_UnsupportedModel ==
    compiled # Nothing =>
        LET r == request[1]
            c == compiled[1]
            supported == r.model \in
                {"nai-diffusion-4-5-full", "nai-diffusion-4-5-curated",
                 "nai-diffusion-4-full", "nai-diffusion-4-curated-preview",
                 "nai-diffusion-3", "nai-diffusion-furry-3"}
        IN  /\ (~c.ok /\ c.error = "NovelAIAPIError") <=> ~supported
            /\ ~supported => c.value = Nothing
            /\ ( /\ supported
                 /\ [r.parsed EXCEPT !.seed = Nothing] = DefaultParams
                 /\ r.base_image = Nothing
                 /\ r.mask_image = Nothing
                 /\ r.character_reference = Nothing )
               => /\ c.ok
                  /\ c.value[1].payload.model = r.model
                  /\ c.value[1].payload.action = "generate"

C14_Witness ==
    /\ compiled # Nothing
    /\ request[1].model = "nai-diffusion-4-curated-preview"
    /\ request[1].parsed = DefaultParams
    /\ request[1].base_image = Nothing
    /\ request[1].mask_image = Nothing
    /\ request[1].character_reference = Nothing
    /\ compiled[1].ok
    /\ compiled[1].value[1].payload.model = "nai-diffusion-4-curated-preview"

\* the request carries an explicit seed
ExplicitSeed == request # Nothing /\ request[1].parsed.seed # Nothing

\* C15: with an explicit seed (seed 0 included) compiling is deterministic,
\* two calls on the same request return identical results, and the returned
\* seed, parameters.seed and, for image-to-image, extra_noise_seed all equal
\* the seed of the request.
C15_ExplicitSeedPassedThrough ==
    /\ [][(ExplicitSeed /\ compiled # Nothing /\ compiled' # Nothing)
            => compiled' = compiled]_vars
    /\ [](ExplicitSeed /\ compiled # Nothing /\ compiled[1].ok =>
            LET seed == request[1].parsed.seed[1]
                c == compiled[1].value[1]
            IN  /\ c.seed = seed
                /\ c.payload.parameters.seed = seed
                /\ c.payload.action = "img2img" =>
                     c.payload.parameters.extra_noise_seed = Some(seed))

C15_Witness ==
    /\ ExplicitSeed /\ compiled # Nothing /\ compiled[1].ok
    /\ request[1].parsed.seed = Some(0)
    /\ compiled[1].value[1].payload.action = "img2img"
    /\ compiled[1].value[1].payload.parameters.extra_noise_seed = Some(0)

\* ---- properties of the parser --------------------------------------------
\* the value the command gives for a key: that of the last pair with the key
RECURSIVE Given(_, _)
Given(pairs, key) ==
    IF pairs = <<>> THEN Nothing
    ELSE IF pairs[Len(pairs)][1] = key THEN Some(pairs[Len(pairs)][2])
    ELSE Given(SubSeq(pairs, 1, Len(pairs) - 1), key)

\* the command without the pairs of a key
RECURSIVE Without(_, _)
Without(pairs, key) ==
    IF pairs = <<>> THEN <<>>
    ELSE (IF Head(pairs)[1] = key THEN <<>> ELSE <<Head(pairs)>>)
         \o Without(Tail(pairs), key)

\* a call of parse_generation_message has been made, and it returned
Parsed == parsed # Nothing /\ parsed[1].ok

\* a call of parse_generation_message has been made, and it raised
Rejected == parsed # Nothing /\ ~parsed[1].ok

\* C16: in every successfully parsed result with at most one character
\* use_character_zones is false, whatever the command gave for the flag.
C16_NoZonesUpToOneCharacter ==
    (Parsed /\ Len(parsed[1].value[1].characters) <= 1)
        => ~parsed[1].value[1].use_character_zones

C16_Witness ==
    /\ Parsed
    /\ Len(parsed[1].value[1].characters) = 1
    /\ Given(message[1].pairs, <<"char", "zones">>) = Some("shi")
    /\ ~parsed[1].value[1].use_character_zones

\* C17: in every successfully parsed result base_image and
\* character_reference are never both present; when the command gives both,
\* the result keeps base_image and its character_reference is empty.
C17_BaseImageExcludesReference ==
    Parsed =>
        LET r == parsed[1].value[1]
            base == Given(message[1].pairs, <<"base_image">>)
            reference == Given(message[1].pairs, <<"char", "reference">>)
        IN  /\ ~(r.base_image # Nothing /\ r.character_reference # Nothing)
            /\ (base # Nothing /\ base # Some("")
                  /\ reference # Nothing /\ reference # Some(""))
               => r.base_image = base /\ r.character_reference = Nothing

C17_Witness ==
    /\ Parsed
    /\ Given(message[1].pairs, <<"base_image">>) = Some("img")
    /\ Given(message[1].pairs, <<"char", "reference">>) = Some("ref")
    /\ parsed[1].value[1].base_image = Some("img")
    /\ parsed[1].value[1].character_reference = Nothing

\* the command gives an integer outside 1..28 for the step count
StepsOutOfRange ==
    LET steps == Given(message[1].pairs, <<"steps">>)
    IN  /\ steps # Nothing
        /\ steps[1] \in DOMAIN IntOf
        /\ IntOf[steps[1]] \notin 1..28

\* the exception of a step count below 1 or above 28
IsStepsRangeError(result) ==
    /\ ~result.ok
    /\ result.error \in {<<"ParseError", "steps", "too small">>,
                         <<"ParseError", "steps", "too large">>}

\* C18: whenever the step-count value is an integer outside 1..28 (30, 0)
\* parsing fails, and it fails with the step-count range error when the
\* rest of the command is valid (the command parses without its step key);
\* every successfully parsed result has steps within 1..28, and 28 when the
\* key is absent or its value is empty.
C18_StepsRange ==
    parsed # Nothing =>
        LET m == message[1]
            steps == Given(m.pairs, <<"steps">>)
            rest == parse_generation_message(
                        [m EXCEPT !.pairs = Without(m.pairs, <<"steps">>)])
        IN  /\ StepsOutOfRange =>
                /\ ~parsed[1].ok
                /\ rest.ok => IsStepsRangeError(parsed[1])
            /\ parsed[1].ok =>
                /\ parsed[1].value[1].steps \in 1..28
                /\ (steps = Nothing \/ steps = Some(""))
                     => parsed[1].value[1].steps = 28

C18_Witness ==
    /\ Rejected
    /\ Given(message[1].pairs, <<"steps">>) = Some("30")
    /\ parsed[1].error = <<"ParseError", "steps", "too large">>

\* the pairs of the command whose key is a key of character i
KeysOf(i) ==
    {k \in 1..Len(message[1].pairs) :
        LET key == message[1].pairs[k][1]
        IN  /\ Len(key) >= 2
            /\ key[1] = "char"
            /\ key[Len(key)] \in {"positive", "negative", "position"}
            /\ IsDigit(SubSeq(key, 2, Len(key) - 1))
            /\ IndexOf(SubSeq(key, 2, Len(key) - 1)) = i}

\* the positive prompt the command gives for character i, if it is not empty
PositiveOf(i) ==
    LET given == {k \in KeysOf(i) :
                    LET key == message[1].pairs[k][1]
                    IN  key[Len(key)] = "positive"}
        last == CHOOSE k \in given : \A j \in given : j <= k
    IN  IF given = {} \/ message[1].pairs[last][2] = ""
        THEN Nothing ELSE Some(message[1].pairs[last][2])

\* C19: if a key of a character index is present but the index has no
\* non-empty positive prompt, parsing fails; a character is in the parsed
\* result only with the positive prompt given for it, and an index for which
\* the command gives no key is absent from the result.
C19_CharacterNeedsPositive ==
    parsed # Nothing =>
        /\ (\E i \in 1..5 : KeysOf(i) # {} /\ PositiveOf(i) = Nothing)
              => ~parsed[1].ok
        /\ parsed[1].ok =>
              LET chars == parsed[1].value[1].characters
              IN  /\ \A c \in 1..Len(chars) :
                        PositiveOf(chars[c].index) = Some(chars[c].positive)
                  /\ \A i \in 1..5 :
                        KeysOf(i) = {} => \A c \in 1..Len(chars) : chars[c].index # i
                  /\ \A i \in 1..5 :
                        KeysOf(i) # {} => \E c \in 1..Len(chars) : chars[c].index = i

C19_Witness ==
    /\ Rejected
    /\ KeysOf(1) # {}
    /\ PositiveOf(1) = Nothing
    /\ parsed[1].error = <<"ParseError", "character", "no positive prompt">>

\* C20: the resolution keyword gives width and height: landscape 1216 by
\* 832, portrait (also when the key is absent) 832 by 1216, square 1024 by
\* 1024; with any other value parsing fails.
C20_ResolutionTable ==
    parsed # Nothing =>
        LET resolution == Given(message[1].pairs, <<"resolution">>)
            size == <<parsed[1].value[1].width, parsed[1].value[1].height>>
        IN  /\ (resolution # Nothing
                  /\ resolution[1] \notin {"portrait", "landscape", "square"})
               => ~parsed[1].ok
            /\ parsed[1].ok =>
                /\ resolution = Some("landscape") => size = <<1216, 832>>
                /\ (resolution = Nothing \/ resolution = Some("portrait"))
                     => size = <<832, 1216>>
                /\ resolution = Some("square") => size = <<1024, 1024>>

C20_Witness ==
    /\ Parsed
    /\ Given(message[1].pairs, <<"resolution">>) = Some("landscape")
    /\ parsed[1].value[1].width = 1216
    /\ parsed[1].value[1].height = 832

\* ---- properties of position_to_float --------------------------------------
Converted == code # Nothing /\ point # Nothing

Columns == <<"A", "B", "C", "D", "E">>
Rows == <<"1", "2", "3", "4", "5">>

\* C21: for each of the 25 codes of the grid (a letter A..E followed by a
\* digit 1..5) position_to_float returns (x, y) with x = 0.1, 0.3, 0.5, 0.7,
\* 0.9 for the letters A..E and y = 0.1, 0.3, 0.5, 0.7, 0.9 for the digits
\* 1..5 (in tenths: the i-th letter gives 2i - 1, the j-th digit 2j - 1).
C21_GridCodes ==
    Converted =>
        \A i \in 1..5, j \in 1..5 :
            code[1] = <<Columns[i], Rows[j]>> =>
                point[1] = <<2 * i - 1, 2 * j - 1>>

\* the code D2 was converted: its column and row differ
C21_Witness ==
    Converted /\ code[1] = <<"D", "2">> /\ point[1] = <<7, 3>>

\* C22: for every code that is not one of the 25 codes of the grid (wrong
\* length, letter outside A..E, digit outside 1..5) position_to_float
\* returns the centre (0.5, 0.5).
C22_OtherCodesAreCentre ==
    Converted /\ code[1] \notin CHARACTER_POSITIONS => point[1] = <<5, 5>>
\* ---- properties of the task handle, the sentinel and the delay ------------
\* C24: whenever a worker loop is alive, the task handle _task refers to that
\* worker.
C24_HandleNamesAliveWorker == \A w \in Alive : _task = w

\* no stop() call is suspended at line 46
NoStopPending == \A s \in StopCalls : stops[s].st # "waiting"

\* C25: when the stop() calls have returned, the channel holds no stop
\* sentinel (so that no worker of a later start() can exit on one).
C25_NoSentinelAfterStop == NoStopPending => None \notin Range(queue)

\* C28: when a worker is through with an item (the handler returned, or it
\* raised and the failure was dealt with), it goes into the inter-item delay
\* if and only if the channel is non-empty at that moment, a stop sentinel
\* counting as content; on an empty channel it makes no delay, and while
\* the loop goes on it waits in get() for the next entry.
C28_DelayIffChannelNonEmpty ==
    [][\A w \in Tasks : Finishes(w) =>
          /\ workers'[w].pc = "sleep" <=> queue # <<>>
          /\ (queue = <<>> /\ _running) => workers'[w].pc = "get"]_vars

\* a worker is in the delay after a failed item, with nothing but a sentinel
\* in the channel
C28_Witness ==
    \E w \in Tasks :
        /\ workers[w].pc = "sleep"
        /\ workers[w].exc
        /\ queue = <<None>>
\* ---- properties of the compiler's effect on its arguments -----------------
\* C30: compilation has no effect on its inputs: a call of build_payload
\* leaves the ParsedParams object it is given as it was (every field, the
\* character list included), and a call of build_image2image or
\* build_inpaint returns a new object and leaves the payload it is given as
\* it was.  No call changes any object that existed before it.
C30_InputsUnchanged ==
    [][/\ \A r \in 1..Len(objects) : objects'[r] = objects[r]
       /\ (outcome' # Nothing /\ outcome'[1].result.ok) =>
             outcome'[1].result.value[1] \notin 1..Len(objects)]_vars

\* a payload was wrapped as inpaint, and the result was wrapped again
C30_Witness ==
    /\ outcome # Nothing
    /\ outcome[1].fn = "build_image2image"
    /\ outcome[1].result.ok
    /\ outcome[1].given = 2
    /\ objects[2].parameters.mask # Nothing
    /\ objects[3].action = "img2img"
    /\ objects[1].action = "generate"
\* ---- properties of the LLM client -----------------------------------------
\* the call for the i-th model of the list succeeds
Succeeds(i) == Request(responses[i]).ok

\* C23: generate tries the models in priority order until one succeeds: it
\* returns the response of the first model whose call succeeds and records
\* that model as last_used_model, and it fails only after every model of
\* the list has been tried and has failed.
C23_FallbackUntilSuccess ==
    reply # Nothing =>
        IF \E i \in 1..Len(models) : Succeeds(i)
        THEN LET first == CHOOSE i \in 1..Len(models) :
                              Succeeds(i) /\ \A j \in 1..(i - 1) : ~Succeeds(j)
             IN  /\ reply[1] = Request(responses[first])
                 /\ last_used_model = Some(models[first])
        ELSE /\ ~reply[1].ok
             /\ attempts = Len(models)
\* ---- properties of the whitelist store ------------------------------------
\* C27: after any sequence of add_to_whitelist, set_quota, check_quota,
\* consume_quota, reset_daily_quota and get_user_info calls on an empty
\* store, every user of the store has 0 <= remaining <= daily_limit and
\* daily_limit > 0; a rejected call leaves the store unchanged.
C27_QuotaWithinLimit ==
    /\ [](\A qq \in DOMAIN users :
            /\ users[qq].daily_limit > 0
            /\ 0 <= users[qq].remaining
            /\ users[qq].remaining <= users[qq].daily_limit)
    /\ [][(now' = now /\ ~answer'[1].result.ok) => users' = users]_vars
\* ---- properties of the quota around the queue -----------------------------
\* C26: for every whitelisted user, the requests of that user that reach the
\* remote generation call within one quota period never exceed the quota the
\* user had remaining at the start of the period (here the limit, nothing
\* being consumed yet), under any interleaving of command acceptance and
\* queue processing.
C26_GenerationsWithinQuota ==
    \A qq \in DOMAIN generated : generated[qq] <= users[qq].daily_limit
\* ---- properties of the /nainl override ------------------------------------
AtRest == \A r \in DOMAIN nainl : nainl[r].pc \in {"start", "done"}

====
